---------------------------- MODULE Spec2Model ----------------------------
(***************************************************************************)
(* A model of probot-app-usync: the commit reconciliation walk             *)
(* (getCommitsState), the commit message trailer codec, the copy           *)
(* orchestrator (syncCommits / copyCommits) against a model of the host,   *)
(* and the per-key work queue used by the push webhook handlers.           *)
(*                                                                         *)
(* A commit message is a sequence of lines and a line is a sequence of     *)
(* tokens (strings): "foo\n\nmeta:sha:011" is                              *)
(*   << <<"foo">>, <<>>, <<"meta:", "sha", ":", "011">> >>.                *)
(* The tokens ":" and ";" are the separators the codec splits on, "meta:"  *)
(* is the prefix the codec looks for at the start of a line.               *)
(***************************************************************************)
EXTENDS Integers, Sequences, FiniteSets, TLC

VARIABLES
  \* getCommitsState / syncCommits: the two fetched commit lists
  primaryCommits, secondaryCommits,
  \* getCommitsState: the locals of the walk, and where the walk stands
  walk, walkPc,
  \* utils.js: the QUEUES map, one p-queue per key
  QUEUES,
  \* the tasks handed to queue(), in submission order, each with the copy
  \* operation its body started
  tasks,
  \* which onPush is registered, and how many push webhooks were delivered
  deployed, delivered,
  \* the host: the commits of the two pull requests of a pair, oldest first
  branches,
  \* REPO_RELATIONSHIPS: whether the primary pull request is in the parent
  primaryIsParent,
  \* how many commits users pushed and how many commits the copier created
  pushes, copies,
  \* a commit was pushed since syncCommits last fetched the commit lists
  newCommits,
  \* the last syncCommits completed and nothing was pushed since its fetch
  lastRunOk,
  \* the syncCommits / copyCommits call in progress: its position and locals
  run,
  \* one source commit on its way through getPRCommitList and the loop body
  \* of copyCommits: what the call is given, and what it has produced
  copyIn, copyOut,
  \* a commit message on its way through the metadata codec
  codec,
  \* a getPartnerCommitSha call: its arguments, the partner branch, its locals
  partner,
  \* utils.js: the THROTTLERS map, the timers it holds, the clock, and what
  \* was invoked and executed so far
  throttle,
  \* one push webhook on its way through onPush and syncParentPR /
  \* syncChildPR: the configuration, the call, the writes to the partner
  pushSync,
  \* one comment webhook on its way through ProbotCommands and the handler
  \* of the command: the payload, the host's answers, what the handler did
  comment,
  \* one invoked command on its way through the whole handler of !import
  \* and !land: the requests that succeeded, the comments posted, the errors
  flow,
  \* the pull request information handed to getGroupedState, and its result
  grouped,
  \* the webhooks of the pull request app: those waiting, those handled and the sync each one started
  events,
  \* the two pull requests of a pair on the host, the clock, and a syncState call with what it read and what it changed
  prState,
  \* one call of syncState, syncMeta, syncStatuses or syncPRStatus on a pair, with what it reads and the write requests it makes
  idle,
  \* one copyCommits call: the source commits, the loop, the commits it created on the target and its ref update
  chain

reconcileVars == <<primaryCommits, secondaryCommits, walk, walkPc>>

queueVars == <<QUEUES, tasks, deployed, delivered>>

syncVars == <<branches, primaryIsParent, pushes, copies, newCommits,
              lastRunOk, run>>

vars == <<primaryCommits, secondaryCommits, walk, walkPc,
          QUEUES, tasks, deployed, delivered,
          branches, primaryIsParent, pushes, copies, newCommits, lastRunOk,
          run, copyIn, copyOut, codec, partner, throttle,
          pushSync, comment,
          flow,
          grouped,
          events,
          prState,
          idle,
          chain>>

\* the variables of the passage of one commit, in a specification without it
treeVars == <<copyIn, copyOut>>

TreeUnused == copyIn = <<>> /\ copyOut = <<>>

\* the variables of the specifications that stand beside the four above
laterVars == <<codec, partner, throttle, pushSync, comment,
              flow,
              grouped,
              events,
              prState,
              idle,
              chain>>

LaterUnused ==
  /\ codec = <<>> /\ partner = <<>> /\ throttle = <<>>
  /\ pushSync = <<>> /\ comment = <<>>
  /\ flow = <<>>
  /\ grouped = <<>>
  /\ events = <<>>
  /\ prState = <<>>
  /\ idle = <<>>
  /\ chain = <<>>

\* the variables of the four specifications above, and their values in a
\* specification that uses none of them
coreVars == <<primaryCommits, secondaryCommits, walk, walkPc,
              QUEUES, tasks, deployed, delivered,
              branches, primaryIsParent, pushes, copies, newCommits,
              lastRunOk, run, copyIn, copyOut>>

\* a step of the specification of variable v leaves every other variable
Alone(v) ==
  /\ UNCHANGED coreVars
  /\ IF v = "codec" THEN TRUE ELSE UNCHANGED codec
  /\ IF v = "partner" THEN TRUE ELSE UNCHANGED partner
  /\ IF v = "throttle" THEN TRUE ELSE UNCHANGED throttle
  /\ IF v = "pushSync" THEN TRUE ELSE UNCHANGED pushSync
  /\ IF v = "comment" THEN TRUE ELSE UNCHANGED comment
  /\ IF v = "flow" THEN TRUE ELSE UNCHANGED flow
  /\ IF v = "grouped" THEN TRUE ELSE UNCHANGED grouped
  /\ IF v = "events" THEN TRUE ELSE UNCHANGED events
  /\ IF v = "prState" THEN TRUE ELSE UNCHANGED prState
  /\ IF v = "idle" THEN TRUE ELSE UNCHANGED idle
  /\ IF v = "chain" THEN TRUE ELSE UNCHANGED chain

\* every variable beside v has the value it has when unused
UnusedBut(v) ==
  /\ IF v = "codec" THEN TRUE ELSE codec = <<>>
  /\ IF v = "partner" THEN TRUE ELSE partner = <<>>
  /\ IF v = "throttle" THEN TRUE ELSE throttle = <<>>
  /\ IF v = "pushSync" THEN TRUE ELSE pushSync = <<>>
  /\ IF v = "comment" THEN TRUE ELSE comment = <<>>
  /\ IF v = "flow" THEN TRUE ELSE flow = <<>>
  /\ IF v = "grouped" THEN TRUE ELSE grouped = <<>>
  /\ IF v = "events" THEN TRUE ELSE events = <<>>
  /\ IF v = "prState" THEN TRUE ELSE prState = <<>>
  /\ IF v = "idle" THEN TRUE ELSE idle = <<>>
  /\ IF v = "chain" THEN TRUE ELSE chain = <<>>

\* the variables of the copy orchestrator, in a specification without it
SyncUnused ==
  /\ branches = <<>> /\ primaryIsParent = FALSE /\ pushes = 0 /\ copies = 0
  /\ newCommits = FALSE /\ lastRunOk = FALSE /\ run = <<>>

---------------------------------------------------------------------------
(* Bounds *)

\* longest commit list of a pull request in the reconciliation specification
MaxLen == 2

---------------------------------------------------------------------------
(* JavaScript values *)

\* `undefined` for a value that is otherwise a piece of a line
Undefined == <<>>

\* `true`, the value parseCommitMeta gives a key that has no value
JsTrue == <<"<true>">>

\* `undefined` for lastCommonPrimaryIndex / lastCommonSecondaryIndex
NoIndex == -1

\* `undefined` for copySource
NoSource == "undefined"

Min(S) == CHOOSE x \in S : \A y \in S : x <= y

Max(S) == CHOOSE x \in S : \A y \in S : x >= y

---------------------------------------------------------------------------
(* Commit message trailer codec *)

\* String.prototype.split(sep) on a line: the pieces between separators
RECURSIVE SplitOn(_, _)
SplitOn(s, sep) ==
  IF \A i \in 1..Len(s) : s[i] # sep
  THEN <<s>>
  ELSE LET k == Min({i \in 1..Len(s) : s[i] = sep})
       IN  <<SubSeq(s, 1, k - 1)>> \o SplitOn(SubSeq(s, k + 1, Len(s)), sep)

\* String.prototype.trim() on a line that starts with "meta:": trailing blanks go
RECURSIVE Trim(_)
Trim(line) ==
  IF Len(line) > 0 /\ line[Len(line)] = " "
  THEN Trim(SubSeq(line, 1, Len(line) - 1))
  ELSE line

\* line.startsWith('meta:')
StartsWithMeta(line) == Len(line) > 0 /\ line[1] = "meta:"

\* const [key, value] = prop.split(':')
PropKey(prop) == SplitOn(prop, ":")[1]

\* value || true
PropValue(prop) ==
  LET pieces == SplitOn(prop, ":")
  IN  IF Len(pieces) >= 2 /\ pieces[2] # <<>> THEN pieces[2] ELSE JsTrue

\* parseCommitMeta: the props of the first line that starts with "meta:",
\* a later prop overwriting an earlier one of the same key; {} if no such line
parseCommitMeta(message) ==
  LET metaLines == {i \in 1..Len(message) : StartsWithMeta(message[i])}
  IN  IF metaLines = {}
      THEN [k \in {} |-> Undefined]
      ELSE LET line  == message[Min(metaLines)]
               props == SplitOn(Tail(Trim(line)), ";")
               keys  == {PropKey(props[j]) : j \in 1..Len(props)}
           IN  [k \in keys |->
                 PropValue(props[Max({j \in 1..Len(props) : PropKey(props[j]) = k})])]

\* meta.sha
MetaSha(meta) == IF <<"sha">> \in DOMAIN meta THEN meta[<<"sha">>] ELSE Undefined

\* commit.message += `\n\nmeta:sha:${sha}`
AppendTraceSha(message, sha) ==
  message \o << <<>>, <<"meta:", "sha", ":", sha>> >>

---------------------------------------------------------------------------
(* getCommitsState *)

\* let pIndex = 0; ... let copySource, lastCommonPrimaryIndex, lastCommonSecondaryIndex
InitialWalk ==
  [pIndex |-> 0, sIndex |-> 0, hasConflict |-> FALSE, hasMismatch |-> FALSE,
   copySource |-> NoSource,
   lastCommonPrimaryIndex |-> NoIndex, lastCommonSecondaryIndex |-> NoIndex]

\* primaryCommits[pIndex] is not undefined
HasCommit(commits, index) == index < Len(commits)

\* primaryCommits[pIndex] (JavaScript indices start at 0)
CommitAt(commits, index) == commits[index + 1]

\* while (pIndex < primaryCommits.length || sIndex < secondaryCommits.length)
LoopCondition(P, S, st) == HasCommit(P, st.pIndex) \/ HasCommit(S, st.sIndex)

\* primaryCommit && !primaryCommit.shouldSync
SkipsPrimary(P, S, st) ==
  HasCommit(P, st.pIndex) /\ ~CommitAt(P, st.pIndex).shouldSync

\* mutant: the `else if` that skips a secondary commit is missing
SkipsSecondary_Missing(P, S, st) == FALSE

\* else if (secondaryCommit && !secondaryCommit.shouldSync)
SkipsSecondary(P, S, st) ==
  /\ ~SkipsPrimary(P, S, st)
  /\ HasCommit(S, st.sIndex) /\ ~CommitAt(S, st.sIndex).shouldSync

\* pIndex++; continue  /  sIndex++; continue
SkipStep(P, S, st) ==
  IF SkipsPrimary(P, S, st)
  THEN [st EXCEPT !.pIndex = @ + 1]
  ELSE [st EXCEPT !.sIndex = @ + 1]

\* mutant: only the primary commit's trailer is looked at
CommitsMatch_OneWay(primaryCommit, secondaryCommit) ==
  MetaSha(parseCommitMeta(primaryCommit.message)) = <<secondaryCommit.sha>>

\* the negation of the condition of the `if` that declares a conflict
CommitsMatch(primaryCommit, secondaryCommit) ==
  LET primaryMeta   == parseCommitMeta(primaryCommit.message)
      secondaryMeta == parseCommitMeta(secondaryCommit.message)
  IN  ~ \/ (MetaSha(primaryMeta) = Undefined /\ MetaSha(secondaryMeta) = Undefined)
        \/ /\ MetaSha(primaryMeta) # <<secondaryCommit.sha>>
           /\ MetaSha(secondaryMeta) # <<primaryCommit.sha>>

\* mutant: a conflict makes the secondary pull request the source of truth
CompareStep_SecondaryWins(P, S, st) ==
  IF CommitsMatch(CommitAt(P, st.pIndex), CommitAt(S, st.sIndex))
  THEN [st EXCEPT !.lastCommonPrimaryIndex = st.pIndex,
                  !.lastCommonSecondaryIndex = st.sIndex,
                  !.pIndex = @ + 1, !.sIndex = @ + 1]
  ELSE [st EXCEPT !.hasMismatch = TRUE, !.hasConflict = TRUE,
                  !.copySource = "secondary"]

\* mutant: the lastCommon indices are set before the pair is compared
CompareStep_RecordsFirst(P, S, st) ==
  IF CommitsMatch(CommitAt(P, st.pIndex), CommitAt(S, st.sIndex))
  THEN [st EXCEPT !.lastCommonPrimaryIndex = st.pIndex,
                  !.lastCommonSecondaryIndex = st.sIndex,
                  !.pIndex = @ + 1, !.sIndex = @ + 1]
  ELSE [st EXCEPT !.lastCommonPrimaryIndex = st.pIndex,
                  !.lastCommonSecondaryIndex = st.sIndex,
                  !.hasMismatch = TRUE, !.hasConflict = TRUE,
                  !.copySource = "primary"]

\* if (primaryCommit && secondaryCommit) { ... }, then `break` or both ++
CompareStep(P, S, st) ==
  IF CommitsMatch(CommitAt(P, st.pIndex), CommitAt(S, st.sIndex))
  THEN [st EXCEPT !.lastCommonPrimaryIndex = st.pIndex,
                  !.lastCommonSecondaryIndex = st.sIndex,
                  !.pIndex = @ + 1, !.sIndex = @ + 1]
  ELSE [st EXCEPT !.hasMismatch = TRUE, !.hasConflict = TRUE,
                  !.copySource = "primary"]

\* mutant: the two one-sided branches name each other's side
ExhaustedStep_Swapped(P, S, st) ==
  IF HasCommit(P, st.pIndex)
  THEN [st EXCEPT !.hasMismatch = TRUE, !.copySource = "secondary"]
  ELSE [st EXCEPT !.hasMismatch = TRUE, !.copySource = "primary"]

\* else if (primaryCommit && !secondaryCommit) / (!primaryCommit && secondaryCommit)
ExhaustedStep(P, S, st) ==
  IF HasCommit(P, st.pIndex)
  THEN [st EXCEPT !.hasMismatch = TRUE, !.copySource = "primary"]
  ELSE [st EXCEPT !.hasMismatch = TRUE, !.copySource = "secondary"]

\* one iteration of the while loop
LoopBody(P, S, st) ==
  IF SkipsPrimary(P, S, st) \/ SkipsSecondary(P, S, st)
  THEN SkipStep(P, S, st)
  ELSE IF HasCommit(P, st.pIndex) /\ HasCommit(S, st.sIndex)
       THEN CompareStep(P, S, st)
       ELSE ExhaustedStep(P, S, st)

\* the loop runs on: its condition holds and no `break` was taken
Looping(P, S, st) == ~st.hasMismatch /\ LoopCondition(P, S, st)

RECURSIVE RunLoop(_, _, _)
RunLoop(P, S, st) ==
  IF Looping(P, S, st) THEN RunLoop(P, S, LoopBody(P, S, st)) ELSE st

\* return {copySource, hasConflict, hasMismatch, lastCommon...Index}
ResultOf(st) ==
  [copySource |-> st.copySource, hasConflict |-> st.hasConflict,
   hasMismatch |-> st.hasMismatch,
   lastCommonPrimaryIndex |-> st.lastCommonPrimaryIndex,
   lastCommonSecondaryIndex |-> st.lastCommonSecondaryIndex]

getCommitsState(P, S) == ResultOf(RunLoop(P, S, InitialWalk))

---------------------------------------------------------------------------
(* Specification SpecReconcile: getCommitsState on any two commit lists    *)

\* the sha of the i-th commit of a list
Sha(prefix, i) == prefix \o ToString(i)

PlainMessage == << <<"foo">> >>

\* the messages a commit of a list may carry: no trailer, or a trailer that
\* names some commit of the other list
MessagesNaming(otherPrefix) ==
  {PlainMessage} \cup
  {AppendTraceSha(PlainMessage, Sha(otherPrefix, j)) : j \in 1..MaxLen}

CommitLists(prefix, otherPrefix) ==
  UNION {
    { [i \in 1..n |-> [sha |-> Sha(prefix, i), message |-> f[i][1],
                       shouldSync |-> f[i][2]]] :
        f \in [1..n -> MessagesNaming(otherPrefix) \X BOOLEAN] } :
    n \in 0..MaxLen }

InitReconcile ==
  /\ primaryCommits \in CommitLists("p", "s")
  /\ secondaryCommits \in CommitLists("s", "p")
  /\ walk = InitialWalk
  /\ walkPc = "loop"
  /\ QUEUES = <<>> /\ tasks = <<>> /\ deployed = "none" /\ delivered = 0
  /\ SyncUnused
  /\ TreeUnused
  /\ LaterUnused

WalkStep ==
  /\ walk' = LoopBody(primaryCommits, secondaryCommits, walk)
  /\ UNCHANGED <<primaryCommits, secondaryCommits, walkPc>>
  /\ UNCHANGED <<queueVars, syncVars, treeVars, laterVars>>

GCS_Skip ==
  /\ walkPc = "loop"
  /\ Looping(primaryCommits, secondaryCommits, walk)
  /\ \/ SkipsPrimary(primaryCommits, secondaryCommits, walk)
     \/ SkipsSecondary(primaryCommits, secondaryCommits, walk)
  /\ WalkStep

GCS_Compare ==
  /\ walkPc = "loop"
  /\ Looping(primaryCommits, secondaryCommits, walk)
  /\ ~SkipsPrimary(primaryCommits, secondaryCommits, walk)
  /\ ~SkipsSecondary(primaryCommits, secondaryCommits, walk)
  /\ HasCommit(primaryCommits, walk.pIndex)
  /\ HasCommit(secondaryCommits, walk.sIndex)
  /\ WalkStep

GCS_Exhausted ==
  /\ walkPc = "loop"
  /\ Looping(primaryCommits, secondaryCommits, walk)
  /\ ~SkipsPrimary(primaryCommits, secondaryCommits, walk)
  /\ ~SkipsSecondary(primaryCommits, secondaryCommits, walk)
  /\ ~(HasCommit(primaryCommits, walk.pIndex) /\ HasCommit(secondaryCommits, walk.sIndex))
  /\ WalkStep

GCS_Return ==
  /\ walkPc = "loop"
  /\ ~Looping(primaryCommits, secondaryCommits, walk)
  /\ walkPc' = "returned"
  /\ UNCHANGED <<primaryCommits, secondaryCommits, walk>>
  /\ UNCHANGED <<queueVars, syncVars, treeVars, laterVars>>

NextReconcile == GCS_Skip \/ GCS_Compare \/ GCS_Exhausted \/ GCS_Return

SpecReconcile == InitReconcile /\ [][NextReconcile]_vars

---------------------------------------------------------------------------
(* Reconciliation stated on the lists themselves, without cursors: drop    *)
(* the commits that are not synced, then pair what is left by position.    *)

\* the (0-based) indices of the commits of a list with shouldSync = true
SyncableIndices(commits) ==
  SelectSeq([i \in 1..Len(commits) |-> i - 1],
            LAMBDA i : commits[i + 1].shouldSync)

\* the list with every shouldSync = false commit removed
WithoutSkipped(commits) == SelectSeq(commits, LAMBDA c : c.shouldSync)

\* one commit's trailer names the other commit's sha
TrailerLinks(primaryCommit, secondaryCommit) ==
  \/ MetaSha(parseCommitMeta(primaryCommit.message)) = <<secondaryCommit.sha>>
  \/ MetaSha(parseCommitMeta(secondaryCommit.message)) = <<primaryCommit.sha>>

PI == SyncableIndices(primaryCommits)

SI == SyncableIndices(secondaryCommits)

\* how many syncable commits can be paired by position
Paired == IF Len(PI) <= Len(SI) THEN Len(PI) ELSE Len(SI)

PairLinked(j) ==
  TrailerLinks(CommitAt(primaryCommits, PI[j]), CommitAt(secondaryCommits, SI[j]))

\* the number of leading pairs of syncable commits that are linked
LinkedPrefix == Max({k \in 0..Paired : \A j \in 1..k : PairLinked(j)})

\* some pair of syncable commits is compared and is not linked
HasUnlinkedPair == LinkedPrefix < Paired

Returned == walkPc = "returned"

\* both cursors of the running walk point at commits with shouldSync = true
ComparesPair ==
  /\ walkPc = "loop"
  /\ Looping(primaryCommits, secondaryCommits, walk)
  /\ HasCommit(primaryCommits, walk.pIndex)
  /\ HasCommit(secondaryCommits, walk.sIndex)
  /\ CommitAt(primaryCommits, walk.pIndex).shouldSync
  /\ CommitAt(secondaryCommits, walk.sIndex).shouldSync

\* the step records the pair under the cursors as common and moves on
RecordsPair ==
  /\ walk'.lastCommonPrimaryIndex = walk.pIndex
  /\ walk'.lastCommonSecondaryIndex = walk.sIndex
  /\ walk'.pIndex = walk.pIndex + 1
  /\ walk'.sIndex = walk.sIndex + 1
  /\ ~walk'.hasMismatch

\* C5: whenever both cursors point at syncable commits, the step of the walk
\* records the pair as common (both lastCommon indices set to the cursors, both
\* cursors advanced) if and only if the primary commit's meta.sha is the
\* secondary commit's sha or the secondary commit's meta.sha is the primary's.
C5_CommonIffTrailerLinks ==
  [][ ComparesPair =>
        (RecordsPair <=>
           TrailerLinks(CommitAt(primaryCommits, walk.pIndex),
                        CommitAt(secondaryCommits, walk.sIndex))) ]_vars

\* a second pair was recorded, through the primary commit's own trailer
C5_Witness ==
  /\ walk.lastCommonPrimaryIndex = 1
  /\ walk.lastCommonSecondaryIndex = 1
  /\ walk.pIndex = 2
  /\ MetaSha(parseCommitMeta(CommitAt(primaryCommits, 1).message))
       = <<CommitAt(secondaryCommits, 1).sha>>
  /\ MetaSha(parseCommitMeta(CommitAt(secondaryCommits, 1).message)) = Undefined

\* C6: when some compared pair of syncable commits is not linked, the walk
\* stops at the first such pair and the result has hasConflict = true,
\* hasMismatch = true and copySource = 'primary', wherever the pair is.
C6_ConflictAtFirstUnlinkedPair ==
  (Returned /\ HasUnlinkedPair) =>
     /\ walk.hasConflict /\ walk.hasMismatch /\ walk.copySource = "primary"
     /\ walk.pIndex = PI[LinkedPrefix + 1]
     /\ walk.sIndex = SI[LinkedPrefix + 1]

\* a conflict that is not at the first pair
C6_Witness ==
  /\ Returned /\ HasUnlinkedPair /\ LinkedPrefix >= 1
  /\ walk.hasConflict

\* the commits of a list that lie behind its last commit of the linked prefix
RestOf(commits, indices) ==
  Len(commits) - (IF LinkedPrefix = 0 THEN 0 ELSE indices[LinkedPrefix] + 1)

\* C7 as stated: if, with no conflict, one list is exhausted while the other
\* still has commits remaining (of any kind), the result has hasMismatch = true,
\* hasConflict = false and copySource names the side that still has commits.
C7_AsStated ==
  (Returned /\ ~HasUnlinkedPair
     /\ (RestOf(primaryCommits, PI) = 0) # (RestOf(secondaryCommits, SI) = 0)) =>
     /\ walk.hasMismatch /\ ~walk.hasConflict
     /\ walk.copySource =
          (IF RestOf(primaryCommits, PI) > 0 THEN "primary" ELSE "secondary")

\* C7 (amended): if, with no conflict, one list has no syncable commit left
\* while the other still has syncable commits remaining, the result has
\* hasMismatch = true, hasConflict = false and copySource names the side that
\* still has syncable commits.
C7_OneSidedExhaustion ==
  (Returned /\ ~HasUnlinkedPair /\ Len(PI) # Len(SI)) =>
     /\ walk.hasMismatch /\ ~walk.hasConflict
     /\ walk.copySource = (IF Len(PI) > Len(SI) THEN "primary" ELSE "secondary")

\* the secondary list has a syncable commit left behind a matched pair
C7_Witness ==
  /\ Returned /\ ~HasUnlinkedPair /\ LinkedPrefix >= 1
  /\ Len(SI) > Len(PI)
  /\ walk.copySource = "secondary"

\* C8: when a mismatch is reported, the lastCommon indices are those of the
\* last pair matched before it, and both undefined if no pair was matched.
C8_LastCommonIsLastMatchedPair ==
  (Returned /\ walk.hasMismatch) =>
     IF LinkedPrefix = 0
     THEN /\ walk.lastCommonPrimaryIndex = NoIndex
          /\ walk.lastCommonSecondaryIndex = NoIndex
     ELSE /\ walk.lastCommonPrimaryIndex = PI[LinkedPrefix]
          /\ walk.lastCommonSecondaryIndex = SI[LinkedPrefix]

\* a mismatch behind a matched pair, with commits behind the matched pair
C8_Witness ==
  /\ Returned /\ walk.hasMismatch
  /\ walk.lastCommonPrimaryIndex = 0
  /\ Len(primaryCommits) = MaxLen
  /\ walk.lastCommonSecondaryIndex < Len(secondaryCommits) - 1

\* every syncable commit of either list is paired, in order, with a linked one
FullySynced == Len(PI) = Len(SI) /\ ~HasUnlinkedPair

\* C9: for two fully synced lists getCommitsState returns hasMismatch = false
\* and hasConflict = false.
C9_FullySyncedNoMismatch ==
  (Returned /\ FullySynced) => (~walk.hasMismatch /\ ~walk.hasConflict)

\* two linked pairs, one through each side's trailer, and a skipped commit
C9_Witness ==
  /\ Returned /\ FullySynced /\ Len(PI) >= 1
  /\ Len(primaryCommits) # Len(secondaryCommits)
  /\ ~walk.hasMismatch

\* the sha a lastCommon index of a result designates in a list
Designated(commits, index) ==
  IF index = NoIndex THEN "none" ELSE CommitAt(commits, index).sha

\* C10: getCommitsState returns the same hasMismatch, hasConflict and
\* copySource as on the two lists with every shouldSync = false commit removed,
\* and its lastCommon indices designate the same commits.
C10_SkippedCommitsInvisible ==
  Returned =>
    LET r == ResultOf(walk)
        fp == WithoutSkipped(primaryCommits)
        fs == WithoutSkipped(secondaryCommits)
        f == getCommitsState(fp, fs)
    IN  /\ r.hasMismatch = f.hasMismatch
        /\ r.hasConflict = f.hasConflict
        /\ r.copySource = f.copySource
        /\ Designated(primaryCommits, r.lastCommonPrimaryIndex)
             = Designated(fp, f.lastCommonPrimaryIndex)
        /\ Designated(secondaryCommits, r.lastCommonSecondaryIndex)
             = Designated(fs, f.lastCommonSecondaryIndex)

\* a walk that skipped a commit on each side and then matched a pair
C10_Witness ==
  /\ Returned
  /\ Len(PI) < Len(primaryCommits) /\ Len(SI) < Len(secondaryCommits)
  /\ walk.lastCommonPrimaryIndex = 1
  /\ walk.lastCommonSecondaryIndex = 1

\* the other side; no source stays no source
Opposite(copySource) ==
  IF copySource = "primary" THEN "secondary"
  ELSE IF copySource = "secondary" THEN "primary"
  ELSE copySource

\* getCommitsState called with the two lists the other way round
SwappedResult == getCommitsState(secondaryCommits, primaryCommits)

\* C39: getCommitsState is symmetric in its arguments except for the source
\* it names on a conflict: with the lists swapped it returns the same
\* hasMismatch and hasConflict, the lastCommon indices swapped, and, when
\* there is no conflict, the opposite copySource.
C39_SymmetricButForConflictSource ==
  Returned =>
    /\ SwappedResult.hasMismatch = walk.hasMismatch
    /\ SwappedResult.hasConflict = walk.hasConflict
    /\ SwappedResult.lastCommonPrimaryIndex = walk.lastCommonSecondaryIndex
    /\ SwappedResult.lastCommonSecondaryIndex = walk.lastCommonPrimaryIndex
    /\ ~walk.hasConflict
         => SwappedResult.copySource = Opposite(walk.copySource)

\* a walk over lists of different lengths that skipped a commit, found a
\* common pair at different indices and a side with commits left over
C39_Witness ==
  /\ Returned
  /\ walk.hasMismatch /\ ~walk.hasConflict
  /\ walk.copySource = "secondary"
  /\ walk.lastCommonPrimaryIndex # NoIndex
  /\ walk.lastCommonPrimaryIndex # walk.lastCommonSecondaryIndex

---------------------------------------------------------------------------
(* The per-key work queue and the push webhook handlers                    *)

\* most push webhooks delivered in the queue specification
MaxDeliveries == 3

\* the two pull requests of one linked pair
ChildPR == [number |-> 7, base |-> [repo |-> [full_name |-> "org/child"]]]

ParentPR == [number |-> 9, base |-> [repo |-> [full_name |-> "org/parent"]]]

hasParent(repoName) == repoName = ChildPR.base.repo.full_name

hasChildren(repoName) == repoName = ParentPR.base.repo.full_name

hasRelationship(repoName) == hasParent(repoName) \/ hasChildren(repoName)

\* the open pull request of the pushed branch, and its partner
getPRFromPushEvent(repoName) == IF hasParent(repoName) THEN ChildPR ELSE ParentPR

getPartnerPR(PR) == IF PR = ChildPR THEN ParentPR ELSE ChildPR

genQueueKey(PR, prefix) ==
  LET repoName == PR.base.repo.full_name
      base     == repoName \o "-" \o ToString(PR.number)
  IN  IF prefix # "" THEN prefix \o "-" \o base ELSE base

\* new Queue({concurrency: 1})
Concurrency == 1

NewQueue == [queue |-> <<>>, pendingCount |-> 0]

\* a queue that starts every task as soon as it is added
CanStart_Unbounded(q) == TRUE

\* mutant: a queue that has no free slot, whatever it holds
CanStart_Never(q) == FALSE

\* p-queue starts a task only while fewer than `concurrency` are running
CanStart(q) == q.pendingCount < Concurrency

\* the synchronous part of a task body: syncParentPR / syncChildPR log and
\* return when the push was forced, and otherwise call copyCommits, which
\* runs up to its first host request
RunBody(task) ==
  [task EXCEPT !.state = "running",
               !.copy = IF task.forced THEN "none" ELSE "started"]

\* p-queue: take the head of the queue and run it, if a slot is free
TryToStartAnother(Q, T, key) ==
  IF Q[key].queue # <<>> /\ CanStart(Q[key])
  THEN LET id == Head(Q[key].queue)
       IN  << [Q EXCEPT ![key].queue = Tail(@), ![key].pendingCount = @ + 1],
              [T EXCEPT ![id] = RunBody(@)] >>
  ELSE << Q, T >>

\* queue(key, task): create the queue of the key on first use, add the task
queue(Q, T, key, task) ==
  LET Q1 == [k \in DOMAIN Q \cup {key} |->
               IF k \in DOMAIN Q THEN Q[k] ELSE NewQueue]
      T1 == Append(T, task)
      Q2 == [Q1 EXCEPT ![key].queue = Append(@, Len(T1))]
  IN  TryToStartAnother(Q2, T1, key)

NewTask(key, repoName, forced, returnsPromise) ==
  [key |-> key, pushedTo |-> repoName, forced |-> forced,
   returnsPromise |-> returnsPromise, state |-> "pending", copy |-> "none"]

\* a copy that has begun and has neither updated the ref nor failed
CopyInProgress(task) == task.copy \in {"started", "committed"}

\* the promise p-queue awaits: the one the body returned, or none at all
BodySettled(task) == task.returnsPromise => ~CopyInProgress(task)

RepoNames == {"org/child", "org/parent", "org/other"}

InitQueue ==
  /\ QUEUES = <<>>
  /\ tasks = <<>>
  /\ deployed \in {"part_015", "part_014"}
  /\ delivered = 0
  /\ primaryCommits = <<>> /\ secondaryCommits = <<>>
  /\ walk = InitialWalk /\ walkPc = "unused"
  /\ SyncUnused
  /\ TreeUnused
  /\ LaterUnused

\* onPush, the later handler: one queue() call keyed by the partner pull
\* request; the task body calls syncParentPR / syncChildPR and returns
\* nothing
OnPush_015(repoName, copyable, found, forced) ==
  /\ deployed = "part_015"
  /\ delivered < MaxDeliveries
  /\ delivered' = delivered + 1
  /\ IF ~hasRelationship(repoName) \/ ~copyable \/ ~found
     THEN UNCHANGED <<QUEUES, tasks>>
     ELSE LET PR        == getPRFromPushEvent(repoName)
              partnerPR == getPartnerPR(PR)
              queueKey  == genQueueKey(partnerPR, "push")
              r == queue(QUEUES, tasks, queueKey,
                         NewTask(queueKey, repoName, forced, FALSE))
          IN  QUEUES' = r[1] /\ tasks' = r[2]
  /\ UNCHANGED <<deployed, reconcileVars, syncVars, treeVars, laterVars>>

\* onPush, the earlier handler: one queue() call per direction the pushed
\* repository takes part in, keyed by the pull request written to; the task
\* body returns the promise of syncParentPR / syncChildPR
OnPush_014(repoName, copyable, found, forced) ==
  /\ deployed = "part_014"
  /\ delivered < MaxDeliveries
  /\ delivered' = delivered + 1
  /\ IF ~hasRelationship(repoName) \/ ~copyable \/ ~found
     THEN UNCHANGED <<QUEUES, tasks>>
     ELSE LET PR == getPRFromPushEvent(repoName)
              r1 == IF hasParent(repoName)
                    THEN LET key == genQueueKey(getPartnerPR(PR), "push")
                         IN  queue(QUEUES, tasks, key,
                                   NewTask(key, repoName, forced, TRUE))
                    ELSE << QUEUES, tasks >>
              r2 == IF hasChildren(repoName)
                    THEN LET key == genQueueKey(getPartnerPR(PR), "push")
                         IN  queue(r1[1], r1[2], key,
                                   NewTask(key, repoName, forced, TRUE))
                    ELSE r1
          IN  QUEUES' = r2[1] /\ tasks' = r2[2]
  /\ UNCHANGED <<deployed, reconcileVars, syncVars, treeVars, laterVars>>

OnPush ==
  \E repoName \in RepoNames, copyable \in BOOLEAN, found \in BOOLEAN,
     forced \in BOOLEAN :
    \/ OnPush_015(repoName, copyable, found, forced)
    \/ OnPush_014(repoName, copyable, found, forced)

\* copyCommits of a started copy creates its commits on the host
CopyCreatesCommits(id) ==
  /\ tasks[id].copy = "started"
  /\ tasks' = [tasks EXCEPT ![id].copy = "committed"]
  /\ UNCHANGED <<QUEUES, deployed, delivered, reconcileVars, syncVars, treeVars, laterVars>>

\* copyCommits ends with the update of the target ref
CopyUpdatesRef(id) ==
  /\ tasks[id].copy = "committed"
  /\ tasks' = [tasks EXCEPT ![id].copy = "done"]
  /\ UNCHANGED <<QUEUES, deployed, delivered, reconcileVars, syncVars, treeVars, laterVars>>

\* any host request of a copy can fail, which rejects copyCommits
CopyFails(id) ==
  /\ CopyInProgress(tasks[id])
  /\ tasks' = [tasks EXCEPT ![id].copy = "failed"]
  /\ UNCHANGED <<QUEUES, deployed, delivered, reconcileVars, syncVars, treeVars, laterVars>>

\* p-queue: the awaited body has settled; free the slot and start the next
TaskSettles(id) ==
  /\ tasks[id].state = "running"
  /\ BodySettled(tasks[id])
  /\ LET key == tasks[id].key
         Q1  == [QUEUES EXCEPT ![key].pendingCount = @ - 1]
         T1  == [tasks EXCEPT ![id].state = "settled"]
         r   == TryToStartAnother(Q1, T1, key)
     IN  QUEUES' = r[1] /\ tasks' = r[2]
  /\ UNCHANGED <<deployed, delivered, reconcileVars, syncVars, treeVars, laterVars>>

NextQueue ==
  \/ OnPush
  \/ \E id \in 1..Len(tasks) : CopyCreatesCommits(id)
  \/ \E id \in 1..Len(tasks) : CopyUpdatesRef(id)
  \/ \E id \in 1..Len(tasks) : CopyFails(id)
  \/ \E id \in 1..Len(tasks) : TaskSettles(id)

SpecQueue == InitQueue /\ [][NextQueue]_vars

---------------------------------------------------------------------------
(* Claims about the work queue *)

TaskIds == 1..Len(tasks)

\* C4: tasks submitted under the same key run one at a time and in the
\* order they were submitted: a task has left the queue only when every
\* task submitted before it under its key has settled.
C4_SameKeyOneAtATimeInOrder ==
  \A i, j \in TaskIds :
    (i < j /\ tasks[i].key = tasks[j].key /\ tasks[j].state # "pending")
      => tasks[i].state = "settled"

\* three tasks under one key: the first ran a whole copy and settled, the
\* second is running, the third waits
C4_Witness ==
  /\ Len(tasks) = 3
  /\ \A i \in TaskIds : tasks[i].key = tasks[1].key
  /\ tasks[1].state = "settled" /\ tasks[1].copy = "done"
  /\ tasks[2].state = "running" /\ CopyInProgress(tasks[2])
  /\ tasks[3].state = "pending"

\* C3: of two push deliveries for the same pull request pair, in either
\* direction, the copy of one is never in progress while the copy of the
\* other is.
C3_CopiesNeverOverlap ==
  \A i, j \in TaskIds :
    i # j => ~(CopyInProgress(tasks[i]) /\ CopyInProgress(tasks[j]))

\* the tasks submitted before task i under its own key that are running
RunningBefore(i) ==
  {j \in TaskIds : j < i /\ tasks[j].key = tasks[i].key
                          /\ tasks[j].state = "running"}

\* C27: tasks queued under different keys do not wait for each other: a
\* task waits only while a task submitted before it under its own key is
\* running, so what the queues of the other keys hold never delays it.
C27_WaitsOnlyForOwnKey ==
  \A i \in TaskIds : tasks[i].state = "pending" => RunningBefore(i) # {}

\* one key has a running copy and a waiting task, and a task submitted
\* after both under another key is running as well
C27_Witness ==
  /\ Len(tasks) = 3
  /\ tasks[1].key = tasks[2].key /\ tasks[3].key # tasks[1].key
  /\ tasks[1].state = "running" /\ CopyInProgress(tasks[1])
  /\ tasks[2].state = "pending"
  /\ tasks[3].state = "running" /\ CopyInProgress(tasks[3])

---------------------------------------------------------------------------
(* The copy orchestrator: syncCommits and copyCommits against the host     *)

\* most commits users push in the orchestrator specification
MaxPushes == 2

\* most commits the copier creates in the orchestrator specification
MaxCopies == 2

\* message.replace(/\n\nmeta:[^\n]*/g, ''): a line that starts with "meta:"
\* goes, together with the empty line before it, when that empty line is
\* itself preceded by a line
StrippedLines(message) ==
  {k \in 3..Len(message) : StartsWithMeta(message[k]) /\ message[k - 1] = <<>>}

RECURSIVE KeepLines(_, _, _)
KeepLines(message, k, drop) ==
  IF k > Len(message) THEN <<>>
  ELSE (IF k \in drop THEN <<>> ELSE <<message[k]>>)
         \o KeepLines(message, k + 1, drop)

\* mutant: the first stripped trailer takes the rest of the message with it
stripCommitMeta_ToEnd(message) ==
  IF StrippedLines(message) = {} THEN message
  ELSE SubSeq(message, 1, Min(StrippedLines(message)) - 2)

stripCommitMeta(message) ==
  LET gone == StrippedLines(message)
  IN  KeepLines(message, 1, gone \cup {k - 1 : k \in gone})

\* REPO_RELATIONSHIPS: the path of the child repository inside the parent
SubPath == <<"child">>

\* `undefined` for the subPath of the list fetched from the child
NoSubPath == <<>>

\* file names, as the pieces the code tells apart
InFile == <<"child", "/", "a.txt">>

AboveFile == <<"root.txt">>

ChildFile == <<"a.txt">>

\* file.filename.startsWith(subPath)
StartsWith(filename, prefix) ==
  Len(filename) >= Len(prefix) /\ SubSeq(filename, 1, Len(prefix)) = prefix

\* `undefined` for the second parent of a commit that is not a merge
NoSha == ""

\* head refs of the two pull requests
HeadRef == [primary |-> "feat-a", secondary |-> "feat-b"]

OtherSide(side) == IF side = "primary" THEN "secondary" ELSE "primary"

\* getCommitLists: only the list of the parent's pull request gets a subPath
SubPathOf(side) ==
  IF (side = "primary") = primaryIsParent THEN SubPath ELSE NoSubPath

\* getPRCommitList, one commit: shouldSync and shouldUseGenericMessage are
\* worked out only with a subPath, and only for a commit that lists files
PRCommit(c, subPath) ==
  LET isMerge      == c.mergedSha # NoSha
      InSub(files) == \E f \in files : StartsWith(f, subPath)
      Above(files) == \E f \in files : ~StartsWith(f, subPath)
      mergedSync   == IF subPath # NoSubPath /\ isMerge /\ c.mergedFiles # {}
                      THEN InSub(c.mergedFiles) ELSE TRUE
      evaluated    == subPath # NoSubPath /\ c.files # {}
  IN  [sha |-> c.sha, message |-> c.message,
       shouldSync |-> IF evaluated
                      THEN ~isMerge \/ mergedSync \/ InSub(c.files)
                      ELSE TRUE,
       shouldUseGenericMessage |-> IF evaluated
                                   THEN InSub(c.files) /\ Above(c.files)
                                   ELSE FALSE,
       isMerge |-> isMerge,
       mergedCommit |-> [sha |-> c.mergedSha, shouldSync |-> mergedSync],
       files |-> c.files]

getPRCommitList(commits, subPath) ==
  [i \in 1..Len(commits) |-> PRCommit(commits[i], subPath)]

\* String.prototype.replace(from, to) on a message: the first occurrence
RECURSIVE ReplaceInLine(_, _, _)
ReplaceInLine(line, from, to) ==
  IF line = <<>> THEN <<>>
  ELSE IF Head(line) = from THEN <<to>> \o Tail(line)
  ELSE <<Head(line)>> \o ReplaceInLine(Tail(line), from, to)

RECURSIVE ReplaceBranch(_, _, _)
ReplaceBranch(message, from, to) ==
  IF message = <<>> THEN <<>>
  ELSE IF \E i \in 1..Len(Head(message)) : Head(message)[i] = from
  THEN <<ReplaceInLine(Head(message), from, to)>> \o Tail(message)
  ELSE <<Head(message)>> \o ReplaceBranch(Tail(message), from, to)

GenericMessage == << <<"Copy commit from parent repo">> >>

\* copyCommits: the message of the copy of prCommit
CopiedMessage(prCommit, sourceBranch, targetBranch) ==
  LET m1 == IF prCommit.isMerge
            THEN ReplaceBranch(prCommit.message, sourceBranch, targetBranch)
            ELSE prCommit.message
      m2 == IF ~prCommit.isMerge /\ prCommit.shouldUseGenericMessage
            THEN GenericMessage ELSE m1
  IN  AppendTraceSha(stripCommitMeta(m2), prCommit.sha)

HostCommit(sha, message, files, mergedSha, mergedFiles) ==
  [sha |-> sha, message |-> message, files |-> files,
   mergedSha |-> mergedSha, mergedFiles |-> mergedFiles]

\* the files a side's own commits touch
FilesOf(side) ==
  IF SubPathOf(side) = SubPath THEN {InFile, AboveFile} ELSE {ChildFile}

\* the file of a side that belongs to the child repository
OwnFile(side) == IF SubPathOf(side) = SubPath THEN InFile ELSE ChildFile

\* what a user can push to the branch of a side: a commit that is not a
\* merge, with one of three messages, or one that touches every file of the
\* side, or a merge of a commit of the base
TitleOnly == << <<"fix">> >>

MetaTitle == << <<"meta:", " ", "bump">> >>

WithOldTrailer == << <<"fix">>, <<>>, <<"meta:", "sha", ":", "old">> >>

MergeMessage(side) == << <<"Merge", "master", "into", HeadRef[side]>> >>

PushedCommits(side, n) ==
  LET sha == "u" \o ToString(n)
  IN  { HostCommit(sha, m, {OwnFile(side)}, NoSha, {}) :
          m \in {TitleOnly, MetaTitle, WithOldTrailer} }
      \cup
      { HostCommit(sha, TitleOnly, FilesOf(side), NoSha, {}) }
      \cup
      { HostCommit(sha, MergeMessage(side), {f}, "m" \o ToString(n), {f}) :
          f \in FilesOf(side) }

\* the locals of syncCommits / copyCommits before the first call
IdleRun ==
  [pc |-> "idle", rerun |-> FALSE, source |-> NoSource,
   toCopy |-> <<>>, parentCommitSha |-> NoSha, created |-> <<>>,
   base |-> <<>>, targetAtCall |-> <<>>, forcePush |-> FALSE,
   wrote |-> FALSE, patchIssued |-> FALSE, patchForce |-> FALSE,
   lookup |-> "none"]

\* a pull request pair whose first commits are already linked by a trailer
LinkedPair ==
  [primary   |-> << HostCommit("p0", TitleOnly, {}, NoSha, {}) >>,
   secondary |-> << HostCommit("s0", AppendTraceSha(TitleOnly, "p0"), {},
                               NoSha, {}) >>]

EmptyPair == [primary |-> <<>>, secondary |-> <<>>]

InitSync ==
  /\ primaryIsParent \in BOOLEAN
  /\ branches \in {LinkedPair, EmptyPair}
  /\ pushes = 0 /\ copies = 0
  /\ newCommits = FALSE /\ lastRunOk = FALSE
  /\ run = IdleRun
  /\ primaryCommits = <<>> /\ secondaryCommits = <<>>
  /\ walk = InitialWalk /\ walkPc = "unused"
  /\ QUEUES = <<>> /\ tasks = <<>> /\ deployed = "none" /\ delivered = 0
  /\ TreeUnused
  /\ LaterUnused

\* a user pushes one commit to the head branch of a pull request
UserPush(side) ==
  /\ pushes < MaxPushes
  /\ \E c \in PushedCommits(side, pushes + 1) :
       branches' = [branches EXCEPT ![side] = Append(@, c)]
  /\ pushes' = pushes + 1
  /\ newCommits' = TRUE
  /\ lastRunOk' = FALSE
  /\ UNCHANGED <<primaryIsParent, copies, run, reconcileVars, queueVars, treeVars, laterVars>>

\* mutant: every ref update is forced
ForcePush_Always(state) == TRUE

\* mutant: no ref update is forced
ForcePush_Never(state) == FALSE

\* copyOpts.forcePush: state.hasConflict
ForcePush(state) == state.hasConflict

\* the fetched commit lists are locals of syncCommits: they are gone once
\* the call has returned or thrown
ListsKeptWhileCopying ==
  /\ primaryCommits' = IF run'.pc = "copy" THEN primaryCommits ELSE <<>>
  /\ secondaryCommits' = IF run'.pc = "copy" THEN secondaryCommits ELSE <<>>
  /\ UNCHANGED <<walk, walkPc>>

\* syncCommits up to its call of copyCommits: fetch both commit lists, walk
\* them, and set up the copy when they differ
SyncCommits ==
  /\ run.pc \in {"idle", "done", "failed"}
  /\ LET P  == getPRCommitList(branches.primary, SubPathOf("primary"))
         S  == getPRCommitList(branches.secondary, SubPathOf("secondary"))
         st == RunLoop(P, S, InitialWalk)
         state == ResultOf(st)
         primaryIsSource == state.copySource = "primary"
         target == IF primaryIsSource THEN "secondary" ELSE "primary"
         lastCommonSourceIndex == IF primaryIsSource
                                  THEN state.lastCommonPrimaryIndex
                                  ELSE state.lastCommonSecondaryIndex
         lastCommonTargetIndex == IF primaryIsSource
                                  THEN state.lastCommonSecondaryIndex
                                  ELSE state.lastCommonPrimaryIndex
         sourceCommits == IF primaryIsSource THEN P ELSE S
         targetCommits == IF primaryIsSource THEN S ELSE P
         hasCommonCommit == lastCommonSourceIndex # NoIndex
         started == [IdleRun EXCEPT !.rerun = lastRunOk,
                                    !.source = state.copySource]
         willCopy   == hasCommonCommit /\ state.hasMismatch
     IN  /\ primaryCommits' = IF willCopy THEN P ELSE <<>>
         /\ secondaryCommits' = IF willCopy THEN S ELSE <<>>
         /\ walk' = st /\ walkPc' = "returned"
         /\ IF ~state.hasMismatch
            THEN /\ run' = [started EXCEPT !.pc = "done"]
                 /\ lastRunOk' = TRUE
            ELSE IF ~hasCommonCommit
            \* targetCommits[0]._.parents[0] has no `_`: a TypeError
            THEN /\ run' = [started EXCEPT !.pc = "failed"]
                 /\ lastRunOk' = FALSE
            ELSE /\ run' = [started EXCEPT
                     !.pc = "copy",
                     !.toCopy = SubSeq(sourceCommits, lastCommonSourceIndex + 2,
                                       Len(sourceCommits)),
                     !.parentCommitSha =
                        CommitAt(targetCommits, lastCommonTargetIndex).sha,
                     !.base = SubSeq(branches[target], 1,
                                     lastCommonTargetIndex + 1),
                     !.targetAtCall = branches[target],
                     !.forcePush = ForcePush(state)]
                 /\ lastRunOk' = FALSE
  /\ newCommits' = FALSE
  /\ UNCHANGED <<branches, primaryIsParent, pushes, copies, queueVars, treeVars, laterVars>>

\* mutant: the loop is left after any number of commits
LoopDone_AnyTime(r) == TRUE

\* for (const prCommit of sourceCommits): every commit has been processed
LoopDone(r) == r.toCopy = <<>>

\* mutant: a merge whose partner is not found is copied all the same
ThrowsWithoutPartner_Never(linksMerge, found) == FALSE

\* if (partnerParentSha) parentCommitShas.push(...) else throw
ThrowsWithoutPartner(linksMerge, found) == linksMerge /\ ~found

\* the files of a copy: inside the subPath in the parent, without it in the
\* child, none when the source commit touches nothing that is copied
CopiedFiles(files, target) ==
  IF SubPathOf(target) = SubPath
  THEN IF files = {} THEN {} ELSE {InFile}
  ELSE IF \E f \in files : StartsWith(f, SubPath) THEN {ChildFile} ELSE {}

\* one iteration of the loop of copyCommits; `found` is whether
\* getPartnerCommitSha finds the partner of a merged commit
CopyCommits_Iteration(found) ==
  /\ run.pc = "copy"
  /\ ~LoopDone(run)
  /\ LET prCommit   == Head(run.toCopy)
         target     == OtherSide(run.source)
         linksMerge == prCommit.isMerge /\ prCommit.mergedCommit.shouldSync
         commit     ==
           HostCommit("c" \o ToString(copies + 1),
                      CopiedMessage(prCommit, HeadRef[run.source],
                                    HeadRef[target]),
                      CopiedFiles(prCommit.files, target),
                      IF linksMerge /\ found
                      THEN "x" \o prCommit.mergedCommit.sha ELSE NoSha,
                      IF linksMerge /\ found
                      THEN CopiedFiles({InFile}, target) ELSE {})
         lookup     == IF ~linksMerge THEN "none"
                       ELSE IF found THEN "found" ELSE "missing"
     IN  IF ~prCommit.shouldSync
         THEN /\ run' = [run EXCEPT !.toCopy = Tail(@)]
              /\ UNCHANGED copies
         ELSE IF ThrowsWithoutPartner(linksMerge, found)
         THEN /\ run' = [run EXCEPT !.pc = "failed", !.lookup = lookup]
              /\ UNCHANGED copies
         ELSE /\ copies < MaxCopies
              /\ run' = [run EXCEPT !.toCopy = Tail(@),
                                    !.created = Append(@, commit),
                                    !.parentCommitSha = commit.sha,
                                    !.wrote = TRUE, !.lookup = lookup]
              /\ copies' = copies + 1
  /\ ListsKeptWhileCopying
  /\ UNCHANGED <<branches, primaryIsParent, pushes, newCommits, lastRunOk,
                 queueVars, treeVars, laterVars>>

\* a request of copyCommits before the final one is rejected; treeCreated
\* tells whether the tree of the commit at hand had been created by then
CopyCommits_RequestFails(treeCreated) ==
  /\ run.pc = "copy"
  /\ ~LoopDone(run)
  /\ treeCreated => Head(run.toCopy).shouldSync
  /\ run' = [run EXCEPT !.pc = "failed", !.wrote = @ \/ treeCreated]
  /\ ListsKeptWhileCopying
  /\ UNCHANGED <<branches, primaryIsParent, pushes, copies, newCommits,
                 lastRunOk, queueVars, treeVars, laterVars>>

\* the host moves a ref without `force` only forward
FastForward(current, new) ==
  Len(current) <= Len(new) /\ SubSeq(new, 1, Len(current)) = current

\* the final PATCH of copyCommits; `ok` is whether the request gets through
CopyCommits_UpdateRef(ok) ==
  /\ run.pc = "copy"
  /\ LoopDone(run)
  /\ LET target  == OtherSide(run.source)
         new     == run.base \o run.created
         accepts == ok /\ (run.forcePush \/ FastForward(branches[target], new))
     IN  IF accepts
         THEN /\ branches' = [branches EXCEPT ![target] = new]
              /\ run' = [run EXCEPT !.pc = "done", !.wrote = TRUE,
                                    !.patchForce = run.forcePush,
                                    !.patchIssued = TRUE]
              /\ lastRunOk' = ~newCommits
         ELSE /\ run' = [run EXCEPT !.pc = "failed", !.wrote = TRUE,
                                    !.patchForce = run.forcePush,
                                    !.patchIssued = TRUE]
              /\ UNCHANGED <<branches, lastRunOk>>
  /\ ListsKeptWhileCopying
  /\ UNCHANGED <<primaryIsParent, pushes, copies, newCommits, queueVars, treeVars, laterVars>>

NextSync ==
  \/ \E side \in {"primary", "secondary"} : UserPush(side)
  \/ SyncCommits
  \/ \E found \in BOOLEAN : CopyCommits_Iteration(found)
  \/ \E treeCreated \in BOOLEAN : CopyCommits_RequestFails(treeCreated)
  \/ \E ok \in BOOLEAN : CopyCommits_UpdateRef(ok)

SpecSync == InitSync /\ [][NextSync]_vars

---------------------------------------------------------------------------
(* Claims about the copy orchestrator *)

\* the step issues the PATCH of the target ref
IssuesRefUpdate == run'.patchIssued /\ ~run.patchIssued

\* C1: copyCommits issues the update of the target ref only when every
\* source commit has been processed, no other step of the copier changes a
\* branch, and a step that fails leaves both branches as they were.
C1_RefUpdatedOnlyAfterLoop ==
  [][ /\ IssuesRefUpdate => (run.pc = "copy" /\ run.toCopy = <<>>)
      /\ (pushes' = pushes /\ ~IssuesRefUpdate) => branches' = branches
      /\ (pushes' = pushes /\ run'.pc = "failed") => branches' = branches
    ]_vars

\* a copy that failed in the middle of its loop, after it had created a
\* commit: no ref update was issued and the target is as it was at the call
C1_Witness ==
  /\ run.pc = "failed"
  /\ run.created # <<>> /\ run.toCopy # <<>>
  /\ ~run.patchIssued
  /\ branches[OtherSide(run.source)] = run.targetAtCall

\* C2: a syncCommits that starts after a syncCommits that completed, with
\* nothing pushed in between, finds no mismatch and issues no write request.
C2_RerunIsNoOp ==
  run.rerun => (~run.wrote /\ ~walk.hasMismatch)

\* the branch the running copy writes to
CopyTarget == OtherSide(run.source)

\* C11: when reconciliation reported a mismatch without a conflict, a ref
\* update of the copy that moves the target branch is a fast-forward: the
\* previous head of the target branch is an ancestor of the new head, so no
\* commit of the target branch is dropped.
C11_NoConflictUpdateIsFastForward ==
  [][ (IssuesRefUpdate /\ walk.hasMismatch /\ ~walk.hasConflict)
        => /\ Len(branches[CopyTarget]) <= Len(branches'[CopyTarget])
           /\ \A i \in 1..Len(branches[CopyTarget]) :
                 branches'[CopyTarget][i] = branches[CopyTarget][i]
    ]_vars

\* a copy without conflict has moved the target branch forward by the
\* commits it created
C11_Witness ==
  /\ run.pc = "done" /\ run.patchIssued
  /\ walk.hasMismatch /\ ~walk.hasConflict
  /\ run.created # <<>>
  /\ branches[CopyTarget] = run.targetAtCall \o run.created

\* C12: the final update of the target ref is issued with force = true
\* exactly when reconciliation reported hasConflict = true, and with
\* force = false otherwise.
C12_ForceIffConflict ==
  run.patchIssued => (run.patchForce <=> walk.hasConflict)

\* a forced update after a conflict has replaced commits of the target
C12_Witness ==
  /\ run.pc = "done" /\ run.patchIssued /\ run.patchForce
  /\ walk.hasConflict
  /\ Len(run.base) < Len(run.targetAtCall)
  /\ branches[CopyTarget] = run.base \o run.created

\* C13: every commit the copy creates in the target repository carries a
\* trailer naming its source commit: decoding the message of the new commit
\* yields the sha of the source commit it was copied from.
C13_CopyDecodesToSourceSha ==
  [][ Len(run'.created) > Len(run.created)
        => MetaSha(parseCommitMeta(
             run'.created[Len(run'.created)].message))
           = <<Head(run.toCopy).sha>>
    ]_vars

\* C14: when the source commit is a merge whose merged parent needs syncing
\* and no partner commit is found for it, copyCommits throws: no commit is
\* created for the merge, the copy ends as failed with the merge still at the
\* head of what was left to copy, and no update of the target ref is issued.
C14_MergeWithoutPartnerThrows ==
  run.lookup = "missing"
    => /\ run.pc = "failed"
       /\ ~run.patchIssued
       /\ run.toCopy # <<>>
       /\ Head(run.toCopy).isMerge
       /\ Head(run.toCopy).mergedCommit.shouldSync

\* the copy threw at a merge after it had created a commit for an earlier
\* source commit, and the target branch is as it was at the call
C14_Witness ==
  /\ run.lookup = "missing"
  /\ run.pc = "failed"
  /\ run.created # <<>>
  /\ branches[CopyTarget] = run.targetAtCall

---------------------------------------------------------------------------
(* copyCommitTree, and one source commit on its way through                *)
(* getPRCommitList and the loop body of copyCommits.  Paths are sequences  *)
(* of characters here, so that startsWith and slice act as in the code.    *)

\* how many files a source commit changes at most
MaxFiles == 2

\* getChild(...).path: the directory of the child inside the parent
ChildPath == <<"c">>

\* `${subPath}/`
Slash(subPath) == subPath \o <<"/">>

\* String.prototype.slice(n)
Slice(str, n) == IF n >= Len(str) THEN <<>> ELSE SubSeq(str, n + 1, Len(str))

\* files of the parent repository: two under the directory of the child, one
\* in another directory, one beside the directory with a name that starts alike
ParentPaths == {<<"c", "/", "a">>, <<"c", "/", "b">>, <<"d", "/", "b">>,
                <<"c", "c">>}

\* files of the child repository
ChildPaths == {<<"a">>, <<"b">>}

\* utils.js: base64Encode / base64Decode
base64Encode(text) == <<"base64", text>>

base64Decode(input) == input[2]

\* GET /repos/:repoName/contents/:filepath at the commit: res.data.content
ContentAt(filepath) == base64Encode(<<"text of">> \o filepath)

\* one element of commitInfo.files after augmentPRCommits; removed files get
\* no content, and only renamed files have a previous_filename
ChangedFiles(paths) ==
  {[filename |-> p, previous_filename |-> Undefined, status |-> st,
    content |-> ContentAt(p)] : p \in paths, st \in {"added", "modified"}}
  \cup {[filename |-> p, previous_filename |-> Undefined, status |-> "removed",
         content |-> Undefined] : p \in paths}
  \cup {[filename |-> pq[1], previous_filename |-> pq[2], status |-> "renamed",
         content |-> ContentAt(pq[1])] :
          pq \in {x \in paths \X paths : x[1] # x[2]}}

\* the host lists every path of a commit once, and the previous path of a
\* renamed file is a path the commit no longer has
ListedOnce(files) ==
  \A i, j \in 1..Len(files) :
     /\ i # j => files[i].filename # files[j].filename
     /\ files[i].previous_filename # files[j].filename
     /\ (i # j /\ files[i].status = "renamed")
          => files[i].previous_filename # files[j].previous_filename

\* commitInfo.files of a commit over the given paths
CommitFiles(paths) ==
  UNION {{files \in [1..n -> ChangedFiles(paths)] : ListedOnce(files)} :
           n \in 0..MaxFiles}

\* pick(object, props): a property the object does not have
NoProp == ""

\* an entry of a tree as GET /git/trees returns it
TreeEntry(path, type) ==
  [mode |-> IF type = "tree" THEN "040000" ELSE "100644", path |-> path,
   sha |-> "000", type |-> type, content |-> Undefined]

\* commitInfo.commit.tree.tree: the tree of the source commit holds the files
\* the commit did not remove
SourceTree(files) ==
  {TreeEntry(files[i].filename, "blob") :
     i \in {j \in 1..Len(files) : files[j].status # "removed"}}

\* keyByProp(list, 'path')
keyByProp(list) ==
  [path \in {e.path : e \in list} |-> CHOOSE e \in list : e.path = path]

\* delete newTreeByPath[key]
DeleteKey(map, key) == [k \in DOMAIN map \ {key} |-> map[k]]

\* newTreeByPath[key] = entry
SetKey(map, key, entry) ==
  [k \in DOMAIN map \cup {key} |-> IF k = key THEN entry ELSE map[k]]

\* file.previous_filename || file.filename
OrigFilename(file) ==
  IF file.previous_filename # Undefined THEN file.previous_filename
  ELSE file.filename

\* mutant: every commit is taken to have files of the target
commitHasTargetFiles_Always(files, source) == TRUE

\* files.some(file => (previous_filename || filename).startsWith(`${subPath}/`))
commitHasTargetFiles(files, source) ==
  \E i \in 1..Len(files) :
     StartsWith(OrigFilename(files[i]), Slash(source.subPath))

\* the body of `for (const file of files)` in copyCommitTree
TransplantFile(newTreeByPath, file, commitTreeByPath, source, target) ==
  LET origFilename == OrigFilename(file)
      newFilename  == file.filename
      strippedOrig == IF source.subPath # NoSubPath
                      THEN Slice(origFilename, Len(source.subPath) + 1)
                      ELSE origFilename
      strippedNew  == IF source.subPath # NoSubPath
                      THEN Slice(newFilename, Len(source.subPath) + 1)
                      ELSE newFilename
      targetOrigFilename == IF target.subPath # NoSubPath
                            THEN Slash(target.subPath) \o origFilename
                            ELSE strippedOrig
      targetNewFilename  == IF target.subPath # NoSubPath
                            THEN Slash(target.subPath) \o newFilename
                            ELSE strippedNew
      treeFile == IF newFilename \in DOMAIN commitTreeByPath
                  THEN commitTreeByPath[newFilename]
                  ELSE [mode |-> NoProp, type |-> NoProp]
  IN  IF /\ source.subPath # NoSubPath
         /\ ~StartsWith(origFilename, Slash(source.subPath))
      THEN newTreeByPath
      ELSE IF file.status = "removed"
      THEN DeleteKey(newTreeByPath, targetOrigFilename)
      ELSE SetKey(newTreeByPath, targetOrigFilename,
                  [mode |-> treeFile.mode, path |-> targetNewFilename,
                   sha |-> NoProp, type |-> treeFile.type,
                   content |-> base64Decode(file.content)])

RECURSIVE TransplantFiles(_, _, _, _, _)
\* for (const file of files) { ... }
TransplantFiles(newTreeByPath, files, commitTreeByPath, source, target) ==
  IF files = <<>> THEN newTreeByPath
  ELSE TransplantFiles(
         TransplantFile(newTreeByPath, Head(files), commitTreeByPath,
                        source, target),
         Tail(files), commitTreeByPath, source, target)

\* mutant: the working map starts empty
PickFiles_Nothing(parentTree) == {}

\* parentTree.filter(file => file.type !== 'tree').map(pick mode, path, sha, type)
PickFiles(parentTree) == {e \in parentTree : e.type # "tree"}

\* what copyCommitTree returns: undefined, or the list of tree entries
NONE == [defined |-> FALSE, tree |-> {}]

Entries(tree) == [defined |-> TRUE, tree |-> tree]

\* copyCommitTree({commitInfo, parentTree, source, target})
copyCommitTree(commitInfo, parentTree, source, target) ==
  IF /\ source.subPath # NoSubPath
     /\ ~commitHasTargetFiles(commitInfo.files, source)
  THEN NONE
  ELSE LET newTreeByPath ==
             TransplantFiles(keyByProp(PickFiles(parentTree)),
                             commitInfo.files,
                             keyByProp(SourceTree(commitInfo.files)),
                             source, target)
       IN  Entries({newTreeByPath[k] : k \in DOMAIN newTreeByPath})

\* the two directions of a copy: syncCommits sets source.subPath when the
\* source is the parent and target.subPath when the target is the parent
Directions ==
  {[source |-> [subPath |-> ChildPath], target |-> [subPath |-> NoSubPath]],
   [source |-> [subPath |-> NoSubPath], target |-> [subPath |-> ChildPath]]}

\* the files of the repository a direction reads from and writes to
SourcePaths(d) ==
  IF d.source.subPath # NoSubPath THEN ParentPaths ELSE ChildPaths

TargetPaths(d) ==
  IF d.source.subPath # NoSubPath THEN ChildPaths
  ELSE {Slash(ChildPath) \o p : p \in ChildPaths}

\* targetCommitTree: some files of the target, with or without the entry of
\* a directory
TargetTrees(d) ==
  {{TreeEntry(p, "blob") : p \in ps} \cup dir :
     ps \in SUBSET TargetPaths(d),
     dir \in {{}, {TreeEntry(<<"d">>, "tree")}}}

\* the second parent of a source commit: none, or a commit with these files
MergedParents(d) ==
  {[sha |-> NoSha, files |-> {}]}
  \cup {[sha |-> "m1", files |-> {p}] : p \in SourcePaths(d)}

\* a source commit as the host returns it, with the files of its second parent
SourceCommit(files, merged) ==
  HostCommit("u1", TitleOnly, {files[i].filename : i \in 1..Len(files)},
             merged.sha, merged.files)

\* nothing listed and nothing copied yet
NotCopied ==
  [pc |-> "pushed", prCommit |-> Undefined, newTree |-> NONE,
   posted |-> {}, message |-> Undefined]

InitTree ==
  /\ \E d \in Directions :
       \E files \in CommitFiles(SourcePaths(d)) :
         \E merged \in MergedParents(d) :
           \E parentTree \in TargetTrees(d) :
              copyIn = [source |-> d.source, target |-> d.target,
                        commitInfo |-> [files |-> files], merged |-> merged,
                        parentTree |-> parentTree]
  /\ copyOut = NotCopied
  /\ primaryCommits = <<>> /\ secondaryCommits = <<>>
  /\ walk = InitialWalk /\ walkPc = "unused"
  /\ QUEUES = <<>> /\ tasks = <<>> /\ deployed = "none" /\ delivered = 0
  /\ SyncUnused
  /\ LaterUnused

\* getPRCommitList on the pull request of the source, with its subPath
ListCommit ==
  /\ copyOut.pc = "pushed"
  /\ copyOut' = [copyOut EXCEPT
       !.pc = "listed",
       !.prCommit = PRCommit(SourceCommit(copyIn.commitInfo.files,
                                          copyIn.merged),
                             copyIn.source.subPath)]
  /\ UNCHANGED <<copyIn, reconcileVars, queueVars, syncVars, laterVars>>

\* the body of `for (const prCommit of sourceCommits)` in copyCommits
CopyCommit(found) ==
  /\ copyOut.pc = "listed"
  /\ LET prCommit   == copyOut.prCommit
         linksMerge == prCommit.isMerge /\ prCommit.mergedCommit.shouldSync
         newTree    == copyCommitTree(copyIn.commitInfo, copyIn.parentTree,
                                      copyIn.source, copyIn.target)
         posted     == IF newTree.defined THEN newTree.tree
                       ELSE PickFiles(copyIn.parentTree)
     IN  IF ~prCommit.shouldSync
         THEN copyOut' = [copyOut EXCEPT !.pc = "skipped"]
         ELSE IF ThrowsWithoutPartner(linksMerge, found)
         THEN copyOut' = [copyOut EXCEPT !.pc = "threw", !.newTree = newTree]
         ELSE copyOut' = [copyOut EXCEPT
                !.pc = "committed",
                !.newTree = newTree,
                !.posted = posted,
                !.message = CopiedMessage(prCommit, HeadRef.primary,
                                          HeadRef.secondary)]
  /\ UNCHANGED <<copyIn, reconcileVars, queueVars, syncVars, laterVars>>

NextTree ==
  \/ ListCommit
  \/ \E found \in BOOLEAN : CopyCommit(found)

SpecTree == InitTree /\ [][NextTree]_vars

\* the copy at hand goes from the parent to the child: source.subPath is set
SourceHasSubPath == copyIn.source.subPath # NoSubPath

\* the files the source commit changed
FilesOfCommit ==
  {copyIn.commitInfo.files[i] : i \in 1..Len(copyIn.commitInfo.files)}

\* a path of the parent repository lies under the directory of the child
UnderChildPath(path) ==
  /\ Len(path) > Len(ChildPath) + 1
  /\ SubSeq(path, 1, Len(ChildPath)) = ChildPath
  /\ path[Len(ChildPath) + 1] = "/"

\* the path a file of the source has in the target repository
TranslatedPath(path) ==
  IF SourceHasSubPath
  THEN SubSeq(path, Len(ChildPath) + 2, Len(path))
  ELSE ChildPath \o <<"/">> \o path

\* the file has a place in the target repository
Translatable(file) == SourceHasSubPath => UnderChildPath(file.filename)

\* copyCommitTree has been applied to the source commit and returned a tree
Transplanted ==
  copyOut.pc \in {"committed", "threw"} /\ copyOut.newTree.defined

\* C15: a source commit that is not a merge and for which copyCommitTree
\* yields NONE is skipped: copyCommits creates no commit for it.
C15_NoneIsSkipped ==
  (copyOut.pc = "committed" /\ ~copyOut.prCommit.isMerge)
    => copyOut.newTree.defined

\* C16: with a subPath, getPRCommitList sets shouldSync to true for the
\* commits that touch a path inside the subdirectory and to false for the
\* commits that touch only paths outside it.
C16_ShouldSyncIffTouchesSubPath ==
  (copyOut.pc # "pushed" /\ SourceHasSubPath /\ FilesOfCommit # {})
    => (copyOut.prCommit.shouldSync
          <=> \E file \in FilesOfCommit : UnderChildPath(file.filename))

\* C17: with source.subPath set, copyCommitTree returns NONE for a commit
\* none of whose changed files has a path, previous or current, under
\* source.subPath + '/'.
C17_NoneWithoutFilesUnderSubPath ==
  ( /\ copyOut.pc \in {"committed", "threw"}
    /\ SourceHasSubPath
    /\ \A file \in FilesOfCommit :
          /\ ~UnderChildPath(file.filename)
          /\ ~UnderChildPath(file.previous_filename) )
    => ~copyOut.newTree.defined

\* a commit that renames a file outside the directory of the child was given
\* to copyCommitTree, which returned NONE
C17_Witness ==
  /\ copyOut.pc = "committed"
  /\ SourceHasSubPath
  /\ \E file \in FilesOfCommit : file.status = "renamed"
  /\ \A file \in FilesOfCommit :
        ~UnderChildPath(file.filename) /\ ~UnderChildPath(file.previous_filename)
  /\ ~copyOut.newTree.defined

\* C18: for every changed file of a copied commit that was not removed, the
\* transplanted tree holds the entry of the file at its translated path
\* (source.subPath + '/' stripped, or target.subPath + '/' prepended) and
\* holds no entry of the file at the untranslated path.
C18_EntryAtTranslatedPath ==
  Transplanted
    => \A file \in FilesOfCommit :
          (file.status # "removed" /\ Translatable(file))
            => /\ \E e \in copyOut.newTree.tree :
                     /\ e.path = TranslatedPath(file.filename)
                     /\ e.content = file.content[2]
               /\ ~ \E e \in copyOut.newTree.tree :
                     /\ e.path = file.filename
                     /\ e.content = file.content[2]

\* C19: for every removed file of the commit whose translated path is in
\* parentTree, the transplanted tree has no entry at that path.
C19_RemovedFileAbsent ==
  Transplanted
    => \A file \in FilesOfCommit :
          ( /\ file.status = "removed" /\ Translatable(file)
            /\ \E e \in copyIn.parentTree :
                  e.path = TranslatedPath(file.filename) )
            => ~ \E e \in copyOut.newTree.tree :
                    e.path = TranslatedPath(file.filename)

\* C20: with source.subPath set, every entry of the transplanted tree that
\* carries content has the content of a changed file whose path in the
\* source commit lies under source.subPath + '/'.
C20_ContentOnlyFromSubPath ==
  (Transplanted /\ SourceHasSubPath)
    => \A e \in copyOut.newTree.tree :
          e.content # Undefined
            => \E file \in FilesOfCommit :
                  /\ UnderChildPath(file.filename)
                  /\ file.status # "removed"
                  /\ e.content = file.content[2]

\* the paths of the target repository that the files of the commit stand
\* for: the translated previous and current paths of the files that have a
\* place in the target
TouchedTargetPaths ==
  {TranslatedPath(p) :
     p \in {q \in {file.filename : file \in FilesOfCommit}
                  \cup {file.previous_filename : file \in FilesOfCommit} :
              /\ q # Undefined
              /\ SourceHasSubPath => UnderChildPath(q)}}

\* C21: every blob entry of parentTree whose path is not the translated path
\* of a file changed by the commit is in the output of copyCommitTree with
\* the same mode, path, sha and type.
C21_UntouchedEntriesKept ==
  Transplanted
    => \A e \in copyIn.parentTree :
          (e.type = "blob" /\ e.path \notin TouchedTargetPaths)
            => \E o \in copyOut.newTree.tree :
                  /\ o.mode = e.mode /\ o.path = e.path
                  /\ o.sha = e.sha /\ o.type = e.type
                  /\ o.content = Undefined

\* a tree was transplanted from a parentTree with a file the commit changes
\* and a file it does not touch
C21_Witness ==
  /\ Transplanted
  /\ \E e \in copyIn.parentTree :
        e.type = "blob" /\ e.path \notin TouchedTargetPaths
  /\ \E e \in copyIn.parentTree :
        e.type = "blob" /\ e.path \in TouchedTargetPaths
  /\ \E e \in copyIn.parentTree : e.type = "tree"
  /\ \E o \in copyOut.newTree.tree : o.content # Undefined

\* C37: the tree copyCommitTree returns never holds two entries with the
\* same path, for any parentTree with distinct paths and any added, modified,
\* removed and renamed files, a rename onto a path of parentTree included.
C37_NoTwoEntriesWithSamePath ==
  Transplanted =>
    \A e1, e2 \in copyOut.newTree.tree : e1.path = e2.path => e1 = e2

---------------------------------------------------------------------------
(* the metadata codec: a message is encoded, then decoded or stripped *)

\* how many lines the message handed to the encoder has at most
MaxLines == 3

Blank == <<>>

CoAuthor == <<"Co-authored-by:">>

\* the lines a message is made of: text, a blank line, a line that starts
\* with "meta:" without being a trailer, an older trailer, another trailer
MessageLines ==
  {<<"fix">>, Blank, <<"meta:", " ", "bump">>,
   <<"meta:", "sha", ":", "old">>, CoAuthor}

Messages == UNION {[1..n -> MessageLines] : n \in 1..MaxLines}

\* the meta to encode: {sha, skipSync?}
Metas == [sha : {"abc"}, skipSync : BOOLEAN]

\* m followed by a blank line and the line meta:sha:<sha>[;skipSync]
EncodeMeta(m, meta) ==
  LET encoded == AppendTraceSha(m, meta.sha)
  IN  IF meta.skipSync
      THEN [encoded EXCEPT ![Len(encoded)] = @ \o <<";", "skipSync">>]
      ELSE encoded

\* a trailer block that follows the meta line
TrailerBlock == <<Blank, CoAuthor>>

\* nothing decoded
NoMeta == [k \in {} |-> Undefined]

\* the variables of the first four specifications, unused
CoreUnused ==
  /\ primaryCommits = <<>> /\ secondaryCommits = <<>>
  /\ walk = InitialWalk /\ walkPc = "unused"
  /\ QUEUES = <<>> /\ tasks = <<>> /\ deployed = "none" /\ delivered = 0
  /\ SyncUnused
  /\ TreeUnused

InitMeta ==
  /\ \E m \in Messages : \E meta \in Metas :
        codec = [pc |-> "given", m |-> m, meta |-> meta, message |-> m,
                 trailer |-> FALSE, stripped |-> m, parsed |-> NoMeta]
  /\ CoreUnused
  /\ UnusedBut("codec")

\* copyCommits: commit.message += `\n\nmeta:sha:${sha}`
Encode ==
  /\ codec.pc = "given"
  /\ codec' = [codec EXCEPT !.pc = "encoded",
                            !.message = EncodeMeta(codec.m, codec.meta)]
  /\ Alone("codec")

\* a trailer is appended under the meta line
AppendTrailer ==
  /\ codec.pc = "encoded" /\ ~codec.trailer
  /\ codec' = [codec EXCEPT !.trailer = TRUE,
                            !.message = @ \o TrailerBlock]
  /\ Alone("codec")

\* parseCommitMeta(message)
Decode ==
  /\ codec.pc = "encoded"
  /\ codec' = [codec EXCEPT !.pc = "decoded",
                            !.parsed = parseCommitMeta(codec.message)]
  /\ Alone("codec")

\* stripCommitMeta(message)
Strip ==
  /\ codec.pc = "encoded"
  /\ codec' = [codec EXCEPT !.pc = "stripped",
                            !.stripped = stripCommitMeta(codec.message)]
  /\ Alone("codec")

\* parseCommitMeta(stripCommitMeta(message))
DecodeStripped ==
  /\ codec.pc = "stripped"
  /\ codec' = [codec EXCEPT !.pc = "strippedDecoded",
                            !.parsed = parseCommitMeta(codec.stripped)]
  /\ Alone("codec")

NextMeta ==
  \/ Encode
  \/ AppendTrailer
  \/ Decode
  \/ Strip
  \/ DecodeStripped

SpecMeta == InitMeta /\ [][NextMeta]_vars

\* the meta that was handed to the encoder, as parseCommitMeta would
\* return it
EncodedMeta ==
  [k \in {<<"sha">>} \cup (IF codec.meta.skipSync THEN {<<"skipSync">>}
                           ELSE {})
     |-> IF k = <<"sha">> THEN <<codec.meta.sha>> ELSE JsTrue]

\* C22: for any message m and meta {sha, skipSync?}, decoding the encoded
\* message with parseCommitMeta returns exactly that meta.
C22_DecodeOfEncodeIsMeta ==
  (codec.pc = "decoded" /\ ~codec.trailer) => codec.parsed = EncodedMeta

\* C23: for any message m and meta {sha, skipSync?}, decoding the stripped
\* encoded message returns {}.
C23_DecodeOfStripIsEmpty ==
  (codec.pc = "strippedDecoded" /\ ~codec.trailer)
    => DOMAIN codec.parsed = {}

\* the message handed to the encoder holds no trailer of its own: no line
\* that starts with "meta:" right under a blank line that is not the first
HasNoTrailer(m) ==
  \A k \in 3..Len(m) :
     ~(m[k - 1] = <<>> /\ Len(m[k]) > 0 /\ m[k][1] = "meta:")

---------------------------------------------------------------------------
(* getPartnerCommitSha: cache, trailer lookup, walk over the partner branch *)

\* how many commits the partner branch has at most
MaxHistory == 3

\* trailing pull request indicators of a title
PullRequestIndicators == {"(#1)", "(#2)"}

\* message.split('\n')[0].replace(/ ?\([^)]+\)$/, '')
getRawCommitTitle(message) ==
  LET title == message[1]
      n     == Len(title)
  IN  IF n > 0 /\ title[n] \in PullRequestIndicators
      THEN IF n > 1 /\ title[n - 1] = " "
           THEN SubSeq(title, 1, n - 2)
           ELSE SubSeq(title, 1, n - 1)
      ELSE title

\* range(n) of just-range: 0 .. n - 1
range(n) == 0..(n - 1)

\* opts.commitSha
OrigSha == "abc"

\* the commit the trailer of the original commit names
TrailerSha == "t1"

\* messages of the original commit: a title, a title with a pull request
\* indicator, a title with a trailer
OrigMessages ==
  {<< <<"fix">> >>, << <<"fix", " ", "(#1)">> >>,
   << <<"fix">>, Blank, <<"meta:", "sha", ":", TrailerSha>> >>}

\* messages of the commits of the partner repository: the same title, the
\* same title with another indicator, another title, another title with a
\* trailer that names the original commit
PartnerMessages ==
  {<< <<"fix">> >>, << <<"fix", "(#2)">> >>, << <<"other">> >>,
   << <<"other">>, Blank, <<"meta:", "sha", ":", OrigSha>> >>}

\* the first-parent chain of the partner branch, head first: the last commit
\* of the chain is a root, the others have one parent or are merges
PartnerBranches ==
  UNION {{[i \in 1..n |->
             [sha |-> "h" \o ToString(i), message |-> ms[i],
              parents |-> IF i = n THEN 0 ELSE ps[i]]] :
            ms \in [1..n -> PartnerMessages], ps \in [1..n -> {1, 2}]} :
           n \in 1..MaxHistory}

InitPartner ==
  /\ \E branch \in PartnerBranches :
       \E commitMessage \in OrigMessages :
         \E named \in {<< <<"fix">> >>, << <<"other">> >>} :
           \E historyWindow \in 1..(MaxHistory + 1) :
             \E cached \in {NoSha, "h1"} :
                partner = [pc |-> "called", cache |-> cached,
                           commitMessage |-> commitMessage,
                           namedMessage |->
                             IF MetaSha(parseCommitMeta(commitMessage))
                                  = Undefined
                             THEN << <<"fix">> >> ELSE named,
                           branch |-> branch,
                           historyWindow |-> historyWindow,
                           index |-> 0, at |-> 1, walked |-> FALSE,
                           result |-> NoSha]
  /\ CoreUnused
  /\ UnusedBut("partner")

\* getPartnerCommitSha up to the first request of the walk: the cache, then
\* the commit the trailer names
PartnerStart ==
  /\ partner.pc = "called"
  /\ LET commitMeta == parseCommitMeta(partner.commitMessage)
     IN  IF partner.cache # NoSha
         THEN partner' = [partner EXCEPT !.pc = "returned",
                                         !.result = partner.cache]
         ELSE IF /\ MetaSha(commitMeta) # Undefined
                 /\ getRawCommitTitle(partner.commitMessage)
                      = getRawCommitTitle(partner.namedMessage)
         THEN partner' = [partner EXCEPT !.pc = "returned",
                                         !.result = TrailerSha,
                                         !.cache = TrailerSha]
         ELSE partner' = [partner EXCEPT !.pc = "walking", !.walked = TRUE]
  /\ Alone("partner")

\* if (index < historyWindow - 2 && partnerCommit.parents.length === 1)
StepsBack(index, historyWindow, partnerCommit) ==
  index < historyWindow - 2 /\ partnerCommit.parents = 1

\* one iteration of `for (const index in range(historyWindow - 1))`
PartnerVisit ==
  /\ partner.pc = "walking"
  /\ partner.index \in range(partner.historyWindow - 1)
  /\ LET partnerCommit     == partner.branch[partner.at]
         partnerCommitMeta == parseCommitMeta(partnerCommit.message)
     IN  IF MetaSha(partnerCommitMeta) = <<OrigSha>>
         THEN partner' = [partner EXCEPT !.pc = "returned",
                                         !.result = partnerCommit.sha]
         ELSE IF getRawCommitTitle(partner.commitMessage)
                   = getRawCommitTitle(partnerCommit.message)
         THEN partner' = [partner EXCEPT !.pc = "returned",
                                         !.result = partnerCommit.sha,
                                         !.cache = partnerCommit.sha]
         ELSE IF StepsBack(partner.index, partner.historyWindow,
                           partnerCommit)
         THEN partner' = [partner EXCEPT !.index = @ + 1, !.at = @ + 1]
         ELSE partner' = [partner EXCEPT !.pc = "returned"]
  /\ Alone("partner")

\* the loop has no iteration: range(historyWindow - 1) is empty
PartnerNoVisit ==
  /\ partner.pc = "walking"
  /\ partner.index \notin range(partner.historyWindow - 1)
  /\ partner' = [partner EXCEPT !.pc = "returned"]
  /\ Alone("partner")

NextPartner ==
  \/ PartnerStart
  \/ PartnerVisit
  \/ PartnerNoVisit

SpecPartner == InitPartner /\ [][NextPartner]_vars

\* the commits of the partner branch that a walk along first-parent links
\* can visit: from the head down to the first merge or root commit
FirstParentChain ==
  SubSeq(partner.branch, 1,
         Min({i \in 1..Len(partner.branch) : partner.branch[i].parents # 1}))

\* a commit of the partner branch matches the original commit: its trailer
\* names it, or the raw titles are equal
MatchesOriginal(c) ==
  \/ MetaSha(parseCommitMeta(c.message)) = <<"abc">>
  \/ getRawCommitTitle(c.message) = getRawCommitTitle(partner.commitMessage)

\* the match nearest the head among the first n commits of the chain, if any
NearestMatch(n) ==
  LET matches == {i \in 1..Min({n, Len(FirstParentChain)}) :
                    MatchesOriginal(FirstParentChain[i])}
  IN  IF matches = {} THEN NoSha ELSE FirstParentChain[Min(matches)].sha

\* C25: when the trailer lookup did not succeed, getPartnerCommitSha returns
\* the match nearest the head among the first historyWindow commits of the
\* first-parent chain of the partner branch, none of them beyond a merge, and
\* NONE only if none of these commits matches.
C25_NearestMatchInWindow ==
  (partner.pc = "returned" /\ partner.walked)
    => partner.result = NearestMatch(partner.historyWindow)

---------------------------------------------------------------------------
(* throttleWebhook: the last invocation within the window is the one that  *)
(* runs                                                                    *)

\* how many times the throttled handlers are invoked, and how far the clock
\* runs
MaxInvocations == 3

MaxTime == 5

\* the window of the throttle, in ticks of the clock
Ms == 2

\* the keys of the throttled handlers: payload.sha of a status event
ThrottleKeys == {"sha1", "sha2"}

\* mutant: a pending timer is left to fire
clearTimeout_Nothing(timers, id) == timers

\* clearTimeout(THROTTLERS.get(key))
clearTimeout(timers, id) == {t \in timers : t.id # id}

\* THROTTLERS.delete(key)
DeleteThrottler(T, key) == [k \in DOMAIN T \ {key} |-> T[k]]

\* THROTTLERS.set(key, timer)
SetThrottler(T, key, id) ==
  [k \in DOMAIN T \cup {key} |-> IF k = key THEN id ELSE T[k]]

InitThrottle ==
  /\ throttle = [now |-> 0, timers |-> {}, THROTTLERS |-> <<>>,
                 invoked |-> <<>>, executed |-> <<>>]
  /\ CoreUnused
  /\ UnusedBut("throttle")

\* the function throttleWebhook returns is called with a context; the
\* context is told apart by the number of the invocation
Invoke(key) ==
  /\ Len(throttle.invoked) < MaxInvocations
  /\ LET id      == Len(throttle.invoked) + 1
         T       == throttle.THROTTLERS
         pending == IF key \in DOMAIN T
                    THEN clearTimeout(throttle.timers, T[key])
                    ELSE throttle.timers
         timer   == [id |-> id, key |-> key, due |-> throttle.now + Ms,
                     context |-> id]
     IN  throttle' = [throttle EXCEPT
           !.timers = pending \cup {timer},
           !.THROTTLERS = SetThrottler(T, key, id),
           !.invoked = Append(@, [key |-> key, context |-> id,
                                  at |-> throttle.now])]
  /\ Alone("throttle")

\* a timer fires, at its time or later: the callback of setTimeout
TimerFires(t) ==
  /\ t \in throttle.timers
  /\ throttle.now >= t.due
  /\ throttle' = [throttle EXCEPT
       !.timers = @ \ {t},
       !.THROTTLERS = DeleteThrottler(@, t.key),
       !.executed = Append(@, [key |-> t.key, context |-> t.context])]
  /\ Alone("throttle")

\* time passes
Tick ==
  /\ throttle.now < MaxTime
  /\ throttle' = [throttle EXCEPT !.now = @ + 1]
  /\ Alone("throttle")

NextThrottle ==
  \/ \E key \in ThrottleKeys : Invoke(key)
  \/ \E t \in throttle.timers : TimerFires(t)
  \/ Tick

SpecThrottle == InitThrottle /\ [][NextThrottle]_vars

\* the invocations and the executions of a key, in order
InvokedWith(key) ==
  SelectSeq(throttle.invoked, LAMBDA i : i.key = key)

ExecutedWith(key) ==
  SelectSeq(throttle.executed, LAMBDA e : e.key = key)

\* every invocation of the key came less than the window after the previous
\* invocation of the key
InBurst(key) ==
  \A n \in 2..Len(InvokedWith(key)) :
     InvokedWith(key)[n].at - InvokedWith(key)[n - 1].at < Ms

\* a timer of the key is still to fire
Pending(key) == \E t \in throttle.timers : t.key = key

\* C26: when every invocation of a throttled handler with the same key comes
\* less than ms after the previous one, the wrapped handler runs at most
\* once, with the context of the last invocation and with no other, and it
\* has run exactly once when no timer of the key is left.
C26_OnlyLastInvocationRuns ==
  \A key \in {"sha1", "sha2"} :
     InBurst(key)
       => /\ Len(ExecutedWith(key)) <= 1
          /\ \A n \in 1..Len(ExecutedWith(key)) :
                ExecutedWith(key)[n].context
                  = InvokedWith(key)[Len(InvokedWith(key))].context
          /\ (InvokedWith(key) # <<>> /\ ~Pending(key))
                => Len(ExecutedWith(key)) = 1

\* three invocations of one key in a burst, and the handler has run once,
\* for the third
C26_Witness ==
  /\ Len(InvokedWith("sha1")) = 3
  /\ InBurst("sha1")
  /\ InvokedWith("sha1")[3].at > InvokedWith("sha1")[1].at
  /\ ExecutedWith("sha1") = <<[key |-> "sha1", context |-> 3]>>

---------------------------------------------------------------------------
(* Forced pushes: onPush, getPartnerPR, syncParentPR and syncChildPR       *)

\* most open pull requests on the host in the push specification
MaxOpen == 3

\* a repository name "org/name" and a branch name, split at the slashes
RepoName(org, name) == <<org, name>>

Relationship(parent, path, child) ==
  [parent |-> parent, path |-> path, child |-> child]

\* REPO_RELATIONSHIPS as parseEnv reads it, relationship by relationship:
\* one child, and a child that is itself the parent of a repository
RelationshipMaps ==
  { << Relationship(RepoName("org", "parent"), "c", RepoName("org", "child")) >>,
    << Relationship(RepoName("org", "parent"), "c", RepoName("org", "child")),
       Relationship(RepoName("org", "child"), "d", RepoName("org", "grand")) >> }

PushRepos == {RepoName("org", "parent"), RepoName("org", "child"),
              RepoName("org", "grand"), RepoName("org", "other")}

PushBranches == {<<"fix">>, <<"org", "child", "fix">>, <<"org", "other", "fix">>}

\* a pull request: its base repository and its head ref
PR(repoName, branchName) == [repo |-> repoName, branch |-> branchName]

NoPR == PR(<<>>, <<>>)

AllPRs == {PR(r, b) : r \in PushRepos, b \in PushBranches}

\* childConfig.parent = parentRepo: the parent of the last relationship
\* that names the repository as child
getParentName(map, repoName) ==
  LET S == {k \in DOMAIN map : map[k].child = repoName}
  IN  IF S = {} THEN Undefined ELSE map[Max(S)].parent

\* parentConfig.children, in the order of the setting
getChildren(map, repoName) ==
  SelectSeq(map, LAMBDA r : r.parent = repoName)

getChildrenNames(map, repoName) ==
  [k \in DOMAIN getChildren(map, repoName) |->
     getChildren(map, repoName)[k].child]

NoChild == [defined |-> FALSE, name |-> <<>>, path |-> ""]

\* getChildren(parentRepoName).find(child => child.name === childRepoName)
getChild(map, parentRepoName, childRepoName) ==
  LET cs == getChildren(map, parentRepoName)
      S  == {k \in DOMAIN cs : cs[k].child = childRepoName}
  IN  IF S = {} THEN NoChild
      ELSE [defined |-> TRUE, name |-> cs[Min(S)].child,
            path |-> cs[Min(S)].path]

hasChildrenIn(map, repoName) == getChildren(map, repoName) # <<>>

hasParentIn(map, repoName) == getParentName(map, repoName) # Undefined

hasRelationshipIn(map, repoName) ==
  hasParentIn(map, repoName) \/ hasChildrenIn(map, repoName)

\* getPR: the open pull request of a branch of a repository, if any
getPR(open, repoName, branchName) ==
  IF PR(repoName, branchName) \in open
  THEN PR(repoName, branchName) ELSE NoPR

\* the first repository of the list that has a pull request of the branch
FirstPR(open, repos, branchName) ==
  LET S == {k \in DOMAIN repos : getPR(open, repos[k], branchName) # NoPR}
  IN  IF S = {} THEN NoPR ELSE getPR(open, repos[Min(S)], branchName)

potentialRepos(map, repoName) ==
  (IF hasParentIn(map, repoName)
   THEN <<getParentName(map, repoName)>> ELSE <<>>)
    \o getChildrenNames(map, repoName)

\* same branch name in the parent or in a child
getPartnerPR_old(map, open, pr) ==
  FirstPR(open, potentialRepos(map, pr.repo), pr.branch)

\* const [childOrg, childRepo, ...branchParts] = branchName.split('/')
BranchRepo(branchName) ==
  RepoName(IF Len(branchName) >= 1 THEN branchName[1] ELSE "",
           IF Len(branchName) >= 2 THEN branchName[2] ELSE "undefined")

BranchParts(branchName) == SubSeq(branchName, 3, Len(branchName))

\* getPartnerPR: the old naming first, then the branch "org/child/branch"
\* of the parent for the branch "branch" of the child
getPartnerPR_named(map, open, pr) ==
  IF getPartnerPR_old(map, open, pr) # NoPR
  THEN getPartnerPR_old(map, open, pr)
  ELSE IF hasChildrenIn(map, pr.repo)
       THEN getPR(open, BranchRepo(pr.branch), BranchParts(pr.branch))
       ELSE IF hasParentIn(map, pr.repo)
            THEN getPR(open, getParentName(map, pr.repo),
                       pr.repo \o pr.branch)
            ELSE NoPR

\* getChildPR, getParentPR of the earlier handler
getChildPR(map, open, parentPR) ==
  FirstPR(open, getChildrenNames(map, parentPR.repo), parentPR.branch)

getParentPR(map, open, childPR) ==
  getPR(open, getParentName(map, childPR.repo), childPR.branch)

\* if (pushPayload.forced) { console.warn(...) } else { await copyCommits }
SkipsForced(forced) == forced

\* syncParentPR / syncChildPR up to their first await: the sub-path of the
\* child is read from the relationship of the two repositories, which
\* throws a TypeError when there is none; a forced push is logged; any
\* other push starts copyCommits
SyncPR(map, fn, forced, parentPR, childPR) ==
  LET child == getChild(map, parentPR.repo, childPR.repo)
  IN  [fn |-> fn, forced |-> forced,
       parentRepoName |-> parentPR.repo, childRepoName |-> childPR.repo,
       pc |-> IF ~child.defined THEN "thrown"
              ELSE IF SkipsForced(forced) THEN "returned" ELSE "copying",
       warned |-> child.defined /\ SkipsForced(forced),
       writes |-> <<>>]

syncParentPR(map, forced, childPR, parentPR) ==
  SyncPR(map, "syncParentPR", forced, parentPR, childPR)

syncChildPR(map, forced, parentPR, childPR) ==
  SyncPR(map, "syncChildPR", forced, parentPR, childPR)

InitPush ==
  /\ \E map \in RelationshipMaps, handler \in {"part_015", "part_014"},
        open \in {S \in SUBSET AllPRs : Cardinality(S) <= MaxOpen} :
       pushSync = [map |-> map, handler |-> handler, open |-> open,
                   pc |-> "idle", calls |-> <<>>]
  /\ CoreUnused
  /\ UnusedBut("pushSync")

\* onPush, the later handler: the partner pull request by either naming,
\* and one call, chosen by whether the pushed repository has a parent
PushCalls_015(repoName, branchName, forced) ==
  LET map       == pushSync.map
      pushed    == getPR(pushSync.open, repoName, branchName)
      partnerPR == getPartnerPR_named(map, pushSync.open, pushed)
  IN  IF pushed = NoPR \/ partnerPR = NoPR THEN <<>>
      ELSE IF hasParentIn(map, repoName)
           THEN <<syncParentPR(map, forced, pushed, partnerPR)>>
           ELSE <<syncChildPR(map, forced, pushed, partnerPR)>>

\* onPush, the earlier handler: one call per direction
PushCalls_014(repoName, branchName, forced) ==
  LET map      == pushSync.map
      pushed   == getPR(pushSync.open, repoName, branchName)
      parentPR == getParentPR(map, pushSync.open, pushed)
      childPR  == getChildPR(map, pushSync.open, pushed)
  IN  IF pushed = NoPR THEN <<>>
      ELSE (IF hasParentIn(map, repoName) /\ parentPR # NoPR
            THEN <<syncParentPR(map, forced, pushed, parentPR)>> ELSE <<>>)
        \o (IF hasChildrenIn(map, repoName) /\ childPR # NoPR
            THEN <<syncChildPR(map, forced, pushed, childPR)>> ELSE <<>>)

\* a push webhook is delivered and handled up to the first await of the
\* calls it makes
PushDelivered(repoName, branchName, copyable, forced) ==
  /\ pushSync.pc = "idle"
  /\ pushSync' = [pushSync EXCEPT
       !.pc = "delivered",
       !.calls =
         IF ~hasRelationshipIn(pushSync.map, repoName) THEN <<>>
         ELSE IF pushSync.handler = "part_015"
              THEN (IF copyable
                    THEN PushCalls_015(repoName, branchName, forced)
                    ELSE <<>>)
              ELSE PushCalls_014(repoName, branchName, forced)]
  /\ Alone("pushSync")

\* the writes of copyCommits to the partner, in their order
NextWrite(writes) ==
  IF writes = <<>> THEN "tree"
  ELSE IF writes[Len(writes)] = "tree" THEN "commit" ELSE "ref"

\* copyCommits of a call writes a tree, a commit, and last the ref
CopyWrites(i) ==
  /\ pushSync.calls[i].pc = "copying"
  /\ LET w == NextWrite(pushSync.calls[i].writes)
     IN  pushSync' = [pushSync EXCEPT
           !.calls[i].writes = Append(@, w),
           !.calls[i].pc = IF w = "ref" THEN "returned" ELSE "copying"]
  /\ Alone("pushSync")

\* a host request of copyCommits fails, which rejects the call
CopyRejects(i) ==
  /\ pushSync.calls[i].pc = "copying"
  /\ pushSync' = [pushSync EXCEPT !.calls[i].pc = "thrown"]
  /\ Alone("pushSync")

NextPush ==
  \/ \E repoName \in PushRepos, branchName \in PushBranches,
        copyable \in BOOLEAN, forced \in BOOLEAN :
       PushDelivered(repoName, branchName, copyable, forced)
  \/ \E i \in 1..Len(pushSync.calls) : CopyWrites(i)
  \/ \E i \in 1..Len(pushSync.calls) : CopyRejects(i)

SpecPush == InitPush /\ [][NextPush]_vars

\* the calls of syncParentPR / syncChildPR made for a forced push
ForcedCalls == {i \in 1..Len(pushSync.calls) : pushSync.calls[i].forced}

\* C28: for a push flagged as forced, syncChildPR and syncParentPR write
\* nothing to the partner repository (no tree, no commit, no ref) and return
\* without throwing.
C28_ForcedWritesNothingAndReturns ==
  \A i \in ForcedCalls :
    pushSync.calls[i].writes = <<>> /\ pushSync.calls[i].pc = "returned"

---------------------------------------------------------------------------
(* Comment commands: ProbotCommands and the handler of !import and !land   *)

\* most tokens of a comment body in the command specification
MaxBody == 3

\* what a comment body is made of: the two command words, another word, a
\* blank, and the line breaks
BodyTokens == {"!land", "!import", "x", " ", "\n", "\r"}

RECURSIVE Bodies(_)
Bodies(n) ==
  IF n = 0 THEN {<<>>}
  ELSE Bodies(n - 1) \cup
       {Append(b, t) : b \in {c \in Bodies(n - 1) : Len(c) = n - 1},
                       t \in BodyTokens}

\* commands.on(['!import', '!land'], ...): the keys of this._commands
Commands == <<"!import", "!land">>

\* commentBody.replace(/\r\n|\r|\n/g, '')
RemoveLineBreaks(commentBody) ==
  SelectSeq(commentBody, LAMBDA t : t \notin {"\n", "\r"})

RECURSIVE TrimStart(_)
TrimStart(commentBody) ==
  IF Len(commentBody) > 0 /\ commentBody[1] = " "
  THEN TrimStart(Tail(commentBody))
  ELSE commentBody

\* String.prototype.trim(): the blanks at both ends go
TrimmedBody(commentBody) == Trim(TrimStart(commentBody))

NoCommand == ""

\* _getCommentCommand: the first registered command the body is equal to
getCommentCommand(commentBody) ==
  LET text == TrimmedBody(RemoveLineBreaks(commentBody))
      S    == {k \in DOMAIN Commands : text = <<Commands[k]>>}
  IN  IF S = {} THEN NoCommand ELSE Commands[Min(S)]

\* mutant: every commenter may run a command
HasWriteAccess_Anyone(userPermission) == TRUE

\* userPermission === 'admin' || userPermission === 'write'
HasWriteAccess(userPermission) == userPermission \in {"admin", "write"}

Permissions == {"admin", "write", "read", "none"}

\* the fields of the issue_comment payload the code reads
Payloads ==
  [isPullRequest : BOOLEAN, issueState : {"open", "closed"},
   userType : {"User", "Bot"}, body : Bodies(MaxBody),
   byAuthor : BOOLEAN, inParentRepo : BOOLEAN]

NoPayload ==
  [isPullRequest |-> FALSE, issueState |-> "", userType |-> "", body |-> <<>>,
   byAuthor |-> FALSE, inParentRepo |-> FALSE]

\* what the host answers about the pull request: getPullRequestInfo, the
\* labels read by prHasLabel, and findOpenReleasePR
PullRequests ==
  [state : {"OPEN", "CLOSED"}, baseIsMaster : BOOLEAN,
   mergeable : {"MERGEABLE", "CONFLICTING"}, hasApproval : BOOLEAN,
   mergeStateStatus : {"CLEAN", "HAS_HOOKS", "BLOCKED"},
   hasBreakglass : BOOLEAN, releasePR : BOOLEAN]

NoPullRequest ==
  [state |-> "", baseIsMaster |-> FALSE, mergeable |-> "",
   hasApproval |-> FALSE, mergeStateStatus |-> "", hasBreakglass |-> FALSE,
   releasePR |-> FALSE]

InitCommand ==
  /\ \E version \in {"part_019", "index.js"} :
       comment = [version |-> version, pc |-> "idle", payload |-> NoPayload,
                  command |-> NoCommand, permission |-> "",
                  invoked |-> <<>>, pullRequest |-> NoPullRequest]
  /\ CoreUnused
  /\ UnusedBut("comment")

\* _handleWebhooks up to the permission request
CommentHandled(payload) ==
  /\ LET command == getCommentCommand(payload.body)
         checked == payload.isPullRequest /\ payload.issueState = "open"
                    /\ payload.userType = "User"
     IN  comment' = [comment EXCEPT
           !.payload = payload,
           !.command = IF checked THEN command ELSE NoCommand,
           !.pc = IF checked /\ command # NoCommand
                  THEN "permission" ELSE "ignored"]
  /\ Alone("comment")

\* an issue_comment.created or issue_comment.edited webhook is delivered
CommentDelivered ==
  /\ comment.pc = "idle"
  /\ \E payload \in Payloads : CommentHandled(payload)

\* _handleWebhooks from the answer of the permission request: the handler
\* of the command is called, or nothing is
PermissionAnswered(userPermission) ==
  /\ comment.pc = "permission"
  /\ comment' = [comment EXCEPT
       !.permission = userPermission,
       !.invoked = IF HasWriteAccess(userPermission)
                   THEN Append(@, comment.command) ELSE @,
       !.pc = IF HasWriteAccess(userPermission) THEN "invoked" ELSE "ignored"]
  /\ Alone("comment")

\* the permission request fails, which rejects _handleWebhooks
PermissionFails ==
  /\ comment.pc = "permission"
  /\ comment' = [comment EXCEPT !.pc = "rejected"]
  /\ Alone("comment")

\* pullRequest.mergeStateStatus === 'CLEAN' || ... === 'HAS_HOOKS'
upToDatePassing(pullRequest) ==
  pullRequest.mergeStateStatus \in {"CLEAN", "HAS_HOOKS"}

\* the approval rule of the later handler: asked of !land when the commenter
\* is the author of the pull request; the label stands in for an approval
\* and for passing checks
ApprovalRefuses_part_019(command, payload, pullRequest) ==
  /\ command = "!land" /\ payload.byAuthor
  /\ ~pullRequest.hasApproval \/ ~upToDatePassing(pullRequest)
  /\ ~pullRequest.hasBreakglass
  /\ ~upToDatePassing(pullRequest) \/ ~pullRequest.hasApproval

\* the approval rule of the earlier handler: asked of both commands when the
\* commenter is the author of the pull request
ApprovalRefuses_index(command, payload, pullRequest) ==
  payload.byAuthor /\ ~pullRequest.hasApproval

ApprovalRefuses(version, command, payload, pullRequest) ==
  IF version = "part_019"
  THEN ApprovalRefuses_part_019(command, payload, pullRequest)
  ELSE ApprovalRefuses_index(command, payload, pullRequest)

\* where the handler of !import and !land ends for a pull request
HandlerOutcome(version, command, payload, pullRequest) ==
  IF pullRequest.state # "OPEN" THEN "refused"
  ELSE IF ~pullRequest.baseIsMaster THEN "refused"
  ELSE IF pullRequest.mergeable # "MERGEABLE" THEN "refused"
  ELSE IF ApprovalRefuses(version, command, payload, pullRequest)
       THEN "refused"
  ELSE IF command = "!import"
       THEN (IF payload.inParentRepo THEN "refused" ELSE "importing")
  ELSE IF ~payload.inParentRepo THEN "refused"
  ELSE IF pullRequest.releasePR THEN "refused"
  ELSE "landing"

\* the handler of the command, from getPullRequestInfo to the comment that
\* refuses the command or to the call of sync.import / sync.land
HandlerRuns(pullRequest) ==
  /\ comment.pc = "invoked"
  /\ comment' = [comment EXCEPT
       !.pullRequest = pullRequest,
       !.pc = HandlerOutcome(comment.version, comment.command,
                             comment.payload, pullRequest)]
  /\ Alone("comment")

NextCommand ==
  \/ CommentDelivered
  \/ \E userPermission \in Permissions : PermissionAnswered(userPermission)
  \/ PermissionFails
  \/ \E pullRequest \in PullRequests : HandlerRuns(pullRequest)

SpecCommand == InitCommand /\ [][NextCommand]_vars

\* C29: a registered command handler is invoked only for a comment on a
\* pull request whose issue state is open, by a commenter of type User,
\* whose body without line breaks and trimmed is the command itself, and
\* whose author has the permission admin or write on the repository.
C29_HandlerOnlyForPermittedCommand ==
  \A k \in DOMAIN comment.invoked :
    /\ comment.payload.isPullRequest
    /\ comment.payload.issueState = "open"
    /\ comment.payload.userType = "User"
    /\ comment.invoked[k] \in {Commands[c] : c \in DOMAIN Commands}
    /\ TrimmedBody(RemoveLineBreaks(comment.payload.body))
         = <<comment.invoked[k]>>
    /\ comment.permission \in {"admin", "write"}

\* the handler of !land was invoked for a body that holds line breaks and
\* blanks around the command, by a commenter with write permission
C29_Witness ==
  /\ comment.invoked = <<"!land">>
  /\ comment.payload.body = <<"\n", "!land", " ">>
  /\ comment.permission = "write"

\* C30: !land never goes on to land a pull request that has no approved
\* review, unless the pull request carries the breakglass label.
C30_NoLandWithoutApprovalOrBreakglass ==
  comment.pc = "landing" =>
    comment.pullRequest.hasApproval \/ comment.pullRequest.hasBreakglass

---------------------------------------------------------------------------
(* The command flows: the handler of !import and !land, request by request *)

\* an error: whether it is a USyncError, and the lines of its message
Errors ==
  [usync : BOOLEAN, message : {<<"conflict">>, <<"conflict", "in a.js">>}]

NoError == [usync |-> FALSE, message |-> <<>>]

\* quoteLines: every line of the input gets "> " in front
quoteLines(input) == [k \in DOMAIN input |-> <<"> ", input[k]>>]

\* error_SyncError: the message of a USyncError, and 'Internal Server
\* Error' for any other error, quoted under a headline
error_SyncError(commandName, error) ==
  << <<":boom: **Error when attempting to", commandName>>, <<>> >>
    \o quoteLines(IF error.usync THEN error.message
                  ELSE <<"Internal Server Error">>)

\* a comment of the bot: the pull request it is posted on, and its lines
Comment(to, text) == [to |-> to, text |-> text]

\* mutant: the handler closes the pull request before it imports it
ImportSteps_CloseFirst(version, isFork) ==
  <<"closeIssue", "getFileContent", "sync.import", "createPullRequest",
    "addComment_parent", "addComment">>
    \o (IF isFork THEN <<>> ELSE <<"deleteBranch">>)

\* the awaited requests of the !import branch, in their order
ImportSteps(version, isFork) ==
  <<"getFileContent", "sync.import">>
    \o (IF version = "index.js" THEN <<"prHasLabel">> ELSE <<>>)
    \o <<"createPullRequest", "addComment_parent", "closeIssue", "addComment">>
    \o (IF isFork THEN <<>> ELSE <<"deleteBranch">>)

\* the awaited requests of the !land branch: up to sync.land, and then the
\* first function of Promise.all, which updates this pull request
LandSteps(isFork) ==
  <<"findOpenReleasePR", "sync.land", "closeIssue", "addLabel", "addComment">>
    \o (IF isFork THEN <<>> ELSE <<"deleteBranch">>)

\* the second function of Promise.all, which updates the imported pull
\* request when there is one that was landed
ImportedSteps(hasImported) ==
  IF hasImported THEN <<"addLabel_imported", "addComment_imported">> ELSE <<>>

OwnSteps(f) ==
  IF f.command = "!import" THEN ImportSteps(f.version, f.isFork)
  ELSE LandSteps(f.isFork)

\* the requests of Promise.all start when sync.land has returned
InPromiseAll(f) == f.command = "!land" /\ f.own >= 2

InitFlow ==
  /\ \E version \in {"part_019", "index.js"}, command \in {"!import", "!land"},
        isFork \in BOOLEAN, hasImported \in BOOLEAN :
       flow = [version |-> version, command |-> command, isFork |-> isFork,
               hasImported |-> hasImported /\ ~isFork /\ command = "!land",
               pc |-> "invoked", own |-> 0, ownEnded |-> FALSE,
               side |-> 0, sideEnded |-> FALSE, releasePR |-> FALSE,
               requests |-> <<>>, comments |-> <<>>, raised |-> <<>>,
               thrown |-> NoError]
  /\ CoreUnused
  /\ UnusedBut("flow")

\* a request before the try block rejects (getPullRequestInfo, or prHasLabel
\* of the approval rule): the handler rejects with the error
PreCheckFails(error) ==
  /\ flow.pc = "invoked"
  /\ flow' = [flow EXCEPT !.pc = "thrown", !.raised = Append(@, error),
                          !.thrown = error]
  /\ Alone("flow")

\* the handler from getPullRequestInfo to its first comment of refusal, or
\* into the branch of the command
HandlerStarts(byAuthor, inParentRepo, pullRequest) ==
  /\ flow.pc = "invoked"
  /\ LET payload == [NoPayload EXCEPT !.byAuthor = byAuthor,
                                      !.inParentRepo = inParentRepo]
         outcome == HandlerOutcome(flow.version, flow.command, payload,
                                   [pullRequest EXCEPT !.releasePR = FALSE])
     IN  flow' = [flow EXCEPT
           !.releasePR = pullRequest.releasePR,
           !.pc = IF outcome = "refused" THEN "returned" ELSE "running",
           !.comments = IF outcome = "refused"
                        THEN Append(@, Comment("pr", <<<<"Unable to">>>>))
                        ELSE @]
  /\ Alone("flow")

\* catch (error): the comment with the error, then the error again; when the
\* comment cannot be posted its error takes the place of the caught one
Caught(f, error, commentFails) ==
  [f EXCEPT
     !.pc = "thrown",
     !.comments = IF commentFails THEN @
                  ELSE Append(@, Comment("pr",
                         error_SyncError(f.command, error))),
     !.thrown = IF commentFails THEN [usync |-> FALSE,
                                      message |-> <<"comment failed">>]
                ELSE error]

\* the request the handler waits for returns
OwnStepReturns ==
  /\ flow.pc = "running" \/ (InPromiseAll(flow) /\ flow.pc = "thrown")
  /\ ~flow.ownEnded
  /\ LET steps   == OwnSteps(flow)
         step    == steps[flow.own + 1]
         last    == flow.own + 1 = Len(steps)
         refused == step = "findOpenReleasePR" /\ flow.releasePR
         posted  == IF refused THEN <<Comment("pr", <<<<"Unable to">>>>)>>
                    ELSE IF step = "addComment"
                    THEN <<Comment("pr", <<<<"notify">>>>)>>
                    ELSE IF step = "addComment_parent"
                    THEN <<Comment("parent", <<<<"notify">>>>)>>
                    ELSE <<>>
         allDone == last /\ (flow.sideEnded \/ ImportedSteps(flow.hasImported) = <<>>
                             \/ flow.command = "!import")
     IN  flow' = [flow EXCEPT
           !.own = @ + 1,
           !.ownEnded = last \/ refused,
           !.requests = Append(@, step),
           !.comments = @ \o posted,
           !.pc = IF flow.pc = "thrown" THEN "thrown"
                  ELSE IF refused \/ allDone THEN "returned" ELSE "running"]
  /\ Alone("flow")

\* the request the handler waits for rejects: a missing template is
\* answered with a comment, anything else is caught at the end of the
\* handler, once
OwnStepRejects(error, commentFails) ==
  /\ flow.pc = "running" \/ (InPromiseAll(flow) /\ flow.pc = "thrown")
  /\ ~flow.ownEnded
  /\ LET step == OwnSteps(flow)[flow.own + 1]
         f    == [flow EXCEPT !.ownEnded = TRUE, !.raised = Append(@, error)]
     IN  flow' =
           IF step = "getFileContent"
           THEN [f EXCEPT !.pc = "returned",
                          !.comments = Append(@, Comment("pr", <<<<"Unable to">>>>))]
           ELSE IF flow.pc = "thrown" THEN f
           ELSE Caught(f, error, commentFails)
  /\ Alone("flow")

\* a request of the second function of Promise.all returns
ImportedStepReturns ==
  /\ InPromiseAll(flow) /\ flow.pc \in {"running", "thrown"}
  /\ ~flow.sideEnded
  /\ flow.side < Len(ImportedSteps(flow.hasImported))
  /\ LET steps == ImportedSteps(flow.hasImported)
         step  == steps[flow.side + 1]
         last  == flow.side + 1 = Len(steps)
     IN  flow' = [flow EXCEPT
           !.side = @ + 1,
           !.sideEnded = last,
           !.requests = Append(@, step),
           !.comments = IF step = "addComment_imported"
                        THEN Append(@, Comment("imported", <<<<"notify">>>>))
                        ELSE @,
           !.pc = IF flow.pc = "running" /\ last /\ flow.ownEnded
                  THEN "returned" ELSE flow.pc]
  /\ Alone("flow")

\* a request of the second function of Promise.all rejects
ImportedStepRejects(error, commentFails) ==
  /\ InPromiseAll(flow) /\ flow.pc \in {"running", "thrown"}
  /\ ~flow.sideEnded
  /\ flow.side < Len(ImportedSteps(flow.hasImported))
  /\ LET f == [flow EXCEPT !.sideEnded = TRUE, !.raised = Append(@, error)]
     IN  flow' = IF flow.pc = "thrown" THEN f
                 ELSE Caught(f, error, commentFails)
  /\ Alone("flow")

NextFlow ==
  \/ \E error \in Errors : PreCheckFails(error)
  \/ \E byAuthor \in BOOLEAN, inParentRepo \in BOOLEAN,
        pullRequest \in PullRequests :
       HandlerStarts(byAuthor, inParentRepo, pullRequest)
  \/ OwnStepReturns
  \/ \E error \in Errors, commentFails \in BOOLEAN :
       OwnStepRejects(error, commentFails)
  \/ ImportedStepReturns
  \/ \E error \in Errors, commentFails \in BOOLEAN :
       ImportedStepRejects(error, commentFails)

SpecFlow == InitFlow /\ [][NextFlow]_vars

\* the lines of the message of an error, quoted, stand in the comment
QuotesMessage(c, error) ==
  \E k \in 0..Len(c.text) :
    k + Len(error.message) <= Len(c.text)
    /\ \A j \in DOMAIN error.message :
         c.text[k + j] = <<"> ", error.message[j]>>

\* C31: any error raised during an !import or !land flow results in a
\* comment on the pull request that holds the message of the error as quoted
\* lines, after which the error is thrown again.
C31_ErrorIsCommentedAndRethrown ==
  \A k \in DOMAIN flow.raised :
    /\ \E c \in DOMAIN flow.comments :
         /\ flow.comments[c].to = "pr"
         /\ QuotesMessage(flow.comments[c], flow.raised[k])
    /\ flow.thrown = flow.raised[1]

\* the requests that returned, as a set
ReturnedRequests == {flow.requests[k] : k \in DOMAIN flow.requests}

\* C40: !import never closes the original pull request or deletes its
\* branch unless the import into the parent repository and the creation of
\* the new pull request of the parent have both succeeded.
C40_ImportClosesOnlyAfterImportAndNewPR ==
  (flow.command = "!import" /\ ReturnedRequests \cap {"closeIssue", "deleteBranch"} # {})
    => {"sync.import", "createPullRequest"} \subseteq ReturnedRequests

\* an import that closed the pull request and deleted its branch
C40_Witness ==
  /\ flow.command = "!import"
  /\ {"closeIssue", "deleteBranch"} \subseteq ReturnedRequests
  /\ flow.pc = "returned"

---------------------------------------------------------------------------
(* Commit statuses: isSyncStatusContext, filterSyncStatus, getGroupedState *)

\* most statuses of the latest commit of a pull request
MaxStatuses == 2

SyncPrefix == "probot/monorepo-sync/"

\* the contexts the bot posts, a context of another service, and a context
\* of another service that begins like one of the bot
PrimaryContext == <<SyncPrefix, "primary", "-pr">>

SecondaryContext == <<SyncPrefix, "secondary", "-pr">>

StatusContexts ==
  {<<"foo">>, PrimaryContext, SecondaryContext, PrimaryContext \o <<"-lint">>}

StatusStates == {"ERROR", "EXPECTED", "FAILURE", "PENDING", "SUCCESS"}

CommitStatus(context, state) == [context |-> context, state |-> state]

RECURSIVE StatusLists(_)
StatusLists(n) ==
  IF n = 0 THEN {<<>>}
  ELSE StatusLists(n - 1) \cup
       {Append(l, CommitStatus(c, st)) :
          l \in {x \in StatusLists(n - 1) : Len(x) = n - 1},
          c \in StatusContexts, st \in StatusStates}

\* /^probot\/monorepo-sync\/(primary|secondary)-pr/.test(context)
isSyncStatusContext(context) ==
  /\ Len(context) >= 3
  /\ context[1] = SyncPrefix
  /\ context[2] \in {"primary", "secondary"}
  /\ context[3] = "-pr"

filterSyncStatus(statuses) ==
  SelectSeq(statuses, LAMBDA status : ~isSyncStatusContext(status.context))

\* new Set(filterSyncStatus(statuses).map(status => status.state))
StatesOf(statuses) ==
  {filterSyncStatus(statuses)[k].state : k \in DOMAIN filterSyncStatus(statuses)}

\* the rest of getGroupedState, once it is settled that there is no error
GroupedWithoutError(states) ==
  IF "FAILURE" \in states THEN "failure"
  ELSE IF "EXPECTED" \in states \/ "PENDING" \in states THEN "pending"
  ELSE "success"

\* getGroupedState(statuses) of commit-status.js: the statuses alone
getGroupedState_statuses(statuses) ==
  IF "ERROR" \in StatesOf(statuses) THEN "error"
  ELSE GroupedWithoutError(StatesOf(statuses))

\* getGroupedState(prInfo) of part_009: the statuses, mergeable and the
\* branch state
getGroupedState_prInfo(prInfo) ==
  IF \/ "ERROR" \in StatesOf(prInfo.statuses)
     \/ prInfo.mergeable # "MERGEABLE"
     \/ prInfo.branchState # "ahead"
  THEN "error"
  ELSE GroupedWithoutError(StatesOf(prInfo.statuses))

getGroupedState(version, prInfo) ==
  IF version = "part_009" THEN getGroupedState_prInfo(prInfo)
  ELSE getGroupedState_statuses(prInfo.statuses)

PRInfos ==
  [branchState : {"ahead", "behind"},
   mergeable : {"MERGEABLE", "CONFLICTING", "UNKNOWN"},
   statuses : StatusLists(MaxStatuses)]

InitGrouped ==
  /\ \E version \in {"part_009", "commit-status.js"}, prInfo \in PRInfos :
       grouped = [version |-> version, prInfo |-> prInfo, pc |-> "given",
                  result |-> ""]
  /\ CoreUnused
  /\ UnusedBut("grouped")

\* syncStatuses asks for the grouped state of the pull request
GroupStates ==
  /\ grouped.pc = "given"
  /\ grouped' = [grouped EXCEPT
       !.pc = "returned",
       !.result = getGroupedState(grouped.version, grouped.prInfo)]
  /\ Alone("grouped")

NextGrouped == GroupStates

SpecGrouped == InitGrouped /\ [][NextGrouped]_vars

\* the states of the statuses that do not carry a context of the bot
OtherStates(statuses) ==
  {statuses[k].state :
     k \in {j \in DOMAIN statuses :
              statuses[j].context \notin {PrimaryContext, SecondaryContext}}}

\* C32: getGroupedState is 'error' if a status of another service is ERROR,
\* or the pull request is not MERGEABLE, or its branch is not 'ahead';
\* otherwise 'failure' if one is FAILURE; otherwise 'pending' if one is
\* PENDING or EXPECTED; otherwise 'success'; the statuses of the bot's own
\* contexts do not count.
C32_GroupedStateByPrecedence ==
  grouped.pc = "returned" =>
    LET states == OtherStates(grouped.prInfo.statuses)
    IN  grouped.result =
          IF \/ "ERROR" \in states
             \/ grouped.prInfo.mergeable # "MERGEABLE"
             \/ grouped.prInfo.branchState # "ahead"
          THEN "error"
          ELSE IF "FAILURE" \in states THEN "failure"
          ELSE IF "PENDING" \in states \/ "EXPECTED" \in states THEN "pending"
          ELSE "success"

---------------------------------------------------------------------------
(* Webhooks of the pull request app: which events start a sync             *)

\* most webhooks created in the webhook specification
MaxEvents == 3

\* getGithubId(): the id of the account that makes the changes of the bot
GithubId == "bot"

SenderIds == {GithubId, "user"}

Event(kind, action, sender, label, context, inMaster, ref) ==
  [kind |-> kind, action |-> action, sender |-> sender, label |-> label,
   context |-> context, inMaster |-> inMaster, ref |-> ref]

PullRequestEvent(action, sender, label) ==
  Event("pull_request", action, sender, label, <<>>, FALSE, "")

StatusEvent(sender, context, inMaster) ==
  Event("status", "", sender, "", context, inMaster, "")

PushEvent(sender, ref) == Event("push", "", sender, "", <<>>, FALSE, ref)

\* what users and other services do to the repositories
UserEvents ==
  {PullRequestEvent(a, "user", "") :
     a \in {"closed", "edited", "opened", "reopened", "synchronize"}}
  \cup {PullRequestEvent("unlabeled", "user", l) : l \in {"disable-sync", "bug"}}
  \cup {StatusEvent("user", c, m) : c \in StatusContexts, m \in BOOLEAN}
  \cup {PushEvent("user", r) : r \in {"refs/heads/master", "refs/heads/fix"}}

AllParts == {"commits", "meta", "state", "statuses"}

\* the webhooks the writes of syncPR bring about: closing or reopening the
\* partner, editing its title and body, moving its head ref, posting the
\* sync status on its latest commit
WritesOf(parts) ==
  (IF "state" \in parts
   THEN {PullRequestEvent(a, GithubId, "") : a \in {"closed", "reopened"}}
   ELSE {})
  \cup (IF "meta" \in parts
        THEN {PullRequestEvent("edited", GithubId, "")} ELSE {})
  \cup (IF "commits" \in parts
        THEN {PullRequestEvent("synchronize", GithubId, ""),
              PushEvent(GithubId, "refs/heads/fix")}
        ELSE {})
  \cup (IF "statuses" \in parts
        THEN {StatusEvent(GithubId, c, FALSE) :
                c \in {PrimaryContext, SecondaryContext}}
        ELSE {})

\* mutant: no event is taken for one of the bot
IsOwnEvent_Never(senderId, githubId) == FALSE

\* payload.sender.id === (await getGithubId())
IsOwnEvent(senderId, githubId) == senderId = githubId

\* app.on(['pull_request.unlabeled'], ...)
OnUnlabeled(e) == IF e.label # "disable-sync" THEN {} ELSE AllParts

\* app.on(['pull_request.closed', ..., 'pull_request.synchronize'], ...)
OnPullRequest(e) ==
  IF IsOwnEvent(e.sender, GithubId) THEN {}
  ELSE IF e.action \in {"closed", "reopened"} THEN {"state"}
  ELSE IF e.action = "edited" THEN {"meta"}
  ELSE {"commits", "state", "statuses"}

\* app.on('push', ...): the statuses of the open pull requests
OnPushToMaster(e, hasOpenPRs) ==
  IF e.ref # "refs/heads/master" \/ ~hasOpenPRs THEN {} ELSE {"statuses"}

\* app.on('status', ...)
OnStatus(e) ==
  IF e.inMaster \/ isSyncStatusContext(e.context) THEN {} ELSE {"statuses"}

\* the parts syncPR is called with for a webhook; none when it is not called
SyncParts(e, hasOpenPRs) ==
  IF e.kind = "pull_request"
  THEN (IF e.action = "unlabeled" THEN OnUnlabeled(e) ELSE OnPullRequest(e))
  ELSE IF e.kind = "push" THEN OnPushToMaster(e, hasOpenPRs)
  ELSE OnStatus(e)

InitEvents ==
  /\ events = [waiting |-> {}, handled |-> <<>>, created |-> 0]
  /\ CoreUnused
  /\ UnusedBut("events")

\* a user or another service changes something, which sends a webhook
UserActs(e) ==
  /\ events.created < MaxEvents
  /\ e \notin events.waiting
  /\ events' = [events EXCEPT !.waiting = @ \cup {e}, !.created = @ + 1]
  /\ Alone("events")

\* a webhook is delivered: its handler runs, and the sync it starts makes
\* some of its writes, each of which sends a webhook of the bot
Delivered(e, hasOpenPRs, written) ==
  /\ e \in events.waiting
  /\ written \subseteq WritesOf(SyncParts(e, hasOpenPRs))
  /\ events.created + Cardinality(written) <= MaxEvents
  /\ events' = [events EXCEPT
       !.waiting = (@ \ {e}) \cup written,
       !.handled = Append(@, [event |-> e,
                              parts |-> SyncParts(e, hasOpenPRs)]),
       !.created = @ + Cardinality(written)]
  /\ Alone("events")

NextEvents ==
  \/ \E e \in UserEvents : UserActs(e)
  \/ \E e \in events.waiting, hasOpenPRs \in BOOLEAN :
       \E written \in SUBSET WritesOf(SyncParts(e, hasOpenPRs)) :
         Delivered(e, hasOpenPRs, written)

SpecEvents == InitEvents /\ [][NextEvents]_vars

\* a webhook that a write of the bot brought about: a pull request event
\* sent by the account of the bot, a status under a context of the bot
FromBot(e) ==
  \/ e.kind = "pull_request" /\ e.sender = GithubId
  \/ e.kind = "status" /\ e.context \in {PrimaryContext, SecondaryContext}

---------------------------------------------------------------------------
(* syncState: the open / closed / merged state of the two pull requests    *)

\* the last reading of the clock of the host, and the most actions of users
MaxClock == 3

MaxUserActs == 3

\* closedAt of a pull request that is not closed
NoTime == -1

\* {closedAt, mergeable, state, updatedAt} of a pull request
PRInfo(state, closedAt, updatedAt, mergeable) ==
  [state |-> state, closedAt |-> closedAt, updatedAt |-> updatedAt,
   mergeable |-> mergeable]

Partner(i) == 3 - i

IdleCall ==
  [pc |-> "idle", info |-> <<>>, result |-> "", changed |-> {},
   interfered |-> FALSE]

\* both pull requests were opened before the clock reads 1
InitState ==
  /\ \E m1 \in BOOLEAN, m2 \in BOOLEAN :
       prState = [prs |-> <<PRInfo("OPEN", NoTime, 0, m1),
                            PRInfo("OPEN", NoTime, 0, m2)>>,
                  now |-> 1, acts |-> 0, call |-> IdleCall,
                  closedByUser |-> 0, reopenedByUser |-> FALSE,
                  reopenedBySync |-> FALSE]
  /\ CoreUnused
  /\ UnusedBut("prState")

\* something a user does while a call is between its read and its return
Interferes(call) ==
  [call EXCEPT !.interfered = @ \/ call.pc \in {"read", "done"}]

UserActed(st) ==
  [st EXCEPT !.acts = @ + 1, !.call = Interferes(@)]

\* a user closes a pull request
UserCloses(i) ==
  /\ prState.acts < MaxUserActs
  /\ prState.prs[i].state = "OPEN"
  /\ prState' = [UserActed(prState) EXCEPT
       !.prs[i].state = "CLOSED",
       !.prs[i].closedAt = prState.now,
       !.prs[i].updatedAt = prState.now,
       !.closedByUser = IF @ = 0 /\ prState.prs[Partner(i)].state = "OPEN"
                        THEN i ELSE @]
  /\ Alone("prState")

\* a user reopens a pull request
UserReopens(i) ==
  /\ prState.acts < MaxUserActs
  /\ prState.prs[i].state = "CLOSED"
  /\ prState' = [UserActed(prState) EXCEPT
       !.prs[i].state = "OPEN",
       !.prs[i].closedAt = NoTime,
       !.prs[i].updatedAt = prState.now,
       !.reopenedByUser = TRUE]
  /\ Alone("prState")

\* a user merges a pull request
UserMerges(i) ==
  /\ prState.acts < MaxUserActs
  /\ prState.prs[i].state = "OPEN" /\ prState.prs[i].mergeable
  /\ prState' = [UserActed(prState) EXCEPT
       !.prs[i].state = "MERGED",
       !.prs[i].closedAt = prState.now,
       !.prs[i].updatedAt = prState.now]
  /\ Alone("prState")

\* a comment, a push or another change of a pull request that is not merged
Activity(i) ==
  /\ prState.acts < MaxUserActs
  /\ prState.prs[i].state # "MERGED"
  /\ prState' = [UserActed(prState) EXCEPT !.prs[i].updatedAt = prState.now]
  /\ Alone("prState")

ClockTicks ==
  /\ prState.now < MaxClock
  /\ prState' = [prState EXCEPT !.now = @ + 1]
  /\ Alone("prState")

\* syncState: await Promise.all([getInfo(primaryPR), getInfo(secondaryPR)])
SyncStateReads ==
  /\ prState.call.pc = "idle"
  /\ prState' = [prState EXCEPT
       !.call = [IdleCall EXCEPT !.pc = "read", !.info = prState.prs]]
  /\ Alone("prState")

\* mutant: the open pull request always wins
NewState_NeverCloses(closedPRInfo, openPRInfo) == "OPEN"

\* closedPRInfo.closedAt > openPRInfo.updatedAt ? 'CLOSED' : 'OPEN'
NewState(closedPRInfo, openPRInfo) ==
  IF closedPRInfo.closedAt > openPRInfo.updatedAt THEN "CLOSED" ELSE "OPEN"

\* what syncState decides from the two infos: the state it returns, the
\* request it makes, and the pull request the request is about
Decision(info) ==
  IF info[1].state = info[2].state
  THEN [result |-> info[1].state, request |-> "none", target |-> 0]
  ELSE IF "MERGED" \in {info[1].state, info[2].state}
  THEN [result |-> "MERGED", request |-> "merge",
        target |-> IF info[1].state = "MERGED" THEN 2 ELSE 1]
  ELSE LET primaryIsClosed == info[1].state = "CLOSED"
           closedPRInfo == IF primaryIsClosed THEN info[1] ELSE info[2]
           openPRInfo   == IF primaryIsClosed THEN info[2] ELSE info[1]
           newState     == NewState(closedPRInfo, openPRInfo)
       IN  [result |-> newState, request |-> "patch",
            target |-> IF info[1].state = newState THEN 2 ELSE 1]

\* the host takes PUT .../merge for an open, mergeable pull request, and
\* PATCH {state} for a pull request that is not merged
HostAccepts(pr, d) ==
  IF d.request = "merge" THEN pr.state = "OPEN" /\ pr.mergeable
  ELSE pr.state # "MERGED"

\* the pull request after the request
HostApplies(pr, d, now) ==
  IF d.request = "merge"
  THEN [pr EXCEPT !.state = "MERGED", !.closedAt = now, !.updatedAt = now]
  ELSE IF d.result = "CLOSED"
  THEN [pr EXCEPT !.state = "CLOSED", !.updatedAt = now,
                  !.closedAt = IF pr.state = "CLOSED" THEN @ ELSE now]
  ELSE [pr EXCEPT !.state = "OPEN", !.updatedAt = now, !.closedAt = NoTime]

\* syncState from the infos to its return: no request when the states are
\* the same, else the merge or the PATCH, which the host takes or refuses
SyncStateWrites ==
  /\ prState.call.pc = "read"
  /\ LET d == Decision(prState.call.info)
     IN  IF d.request = "none"
         THEN prState' = [prState EXCEPT !.call.pc = "done",
                                         !.call.result = d.result]
         ELSE IF ~HostAccepts(prState.prs[d.target], d)
         THEN prState' = [prState EXCEPT !.call.pc = "thrown"]
         ELSE prState' = [prState EXCEPT
                !.prs[d.target] = HostApplies(@, d, prState.now),
                !.call.pc = "done",
                !.call.result = d.result,
                !.call.changed = {d.target},
                !.reopenedBySync =
                   @ \/ (d.request = "patch" /\ d.result = "OPEN"
                         /\ prState.prs[d.target].state = "CLOSED")]
  /\ Alone("prState")

\* a request of syncState fails on the way
SyncStateFails ==
  /\ prState.call.pc = "read"
  /\ prState' = [prState EXCEPT !.call.pc = "thrown"]
  /\ Alone("prState")

\* the caller goes on; the next call can begin
SyncStateEnds ==
  /\ prState.call.pc \in {"done", "thrown"}
  /\ prState' = [prState EXCEPT !.call = IdleCall]
  /\ Alone("prState")

NextState ==
  \/ \E i \in {1, 2} : UserCloses(i)
  \/ \E i \in {1, 2} : UserReopens(i)
  \/ \E i \in {1, 2} : UserMerges(i)
  \/ \E i \in {1, 2} : Activity(i)
  \/ ClockTicks
  \/ SyncStateReads
  \/ SyncStateWrites
  \/ SyncStateFails
  \/ SyncStateEnds

SpecState == InitState /\ [][NextState]_vars

\* a call that returned, read two different states, and had the pull
\* requests to itself from its read on
CompletedOnDifference ==
  /\ prState.call.pc = "done"
  /\ ~prState.call.interfered
  /\ prState.call.info[1].state # prState.call.info[2].state

\* the state the rule asks for, from what the call read
ExpectedState(info) ==
  IF info[1].state = "MERGED" \/ info[2].state = "MERGED" THEN "MERGED"
  ELSE LET c == IF info[1].state = "CLOSED" THEN 1 ELSE 2
       IN  IF info[c].closedAt > info[Partner(c)].updatedAt
           THEN "CLOSED" ELSE "OPEN"

\* C34: when the states of the two pull requests differ, after syncState
\* both are in the state it returns and exactly one was changed; the state
\* is MERGED if either was MERGED, otherwise CLOSED if closedAt of the closed
\* one is later than updatedAt of the open one, and OPEN if not.
C34_BothInReturnedState ==
  CompletedOnDifference =>
    /\ prState.prs[1].state = prState.call.result
    /\ prState.prs[2].state = prState.call.result
    /\ Cardinality(prState.call.changed) = 1
    /\ prState.call.result = ExpectedState(prState.call.info)

\* a call closed the partner of a pull request that was closed after the
\* last change of the partner
C34_Witness ==
  /\ CompletedOnDifference
  /\ prState.call.result = "CLOSED"
  /\ prState.call.info[1].state = "OPEN"
  /\ prState.call.changed = {1}

\* C36: when a user closes one pull request of a pair and nobody reopens
\* either, sync never reopens the closed one, whatever else happens to the
\* partner in the meantime.
C36_ClosedStaysClosed ==
  (prState.closedByUser # 0 /\ ~prState.reopenedByUser)
    => ~prState.reopenedBySync

---------------------------------------------------------------------------
(* The write requests of syncState, syncMeta and syncStatuses on one pair  *)

DefaultTitle == "Sync pull request from parent repo"

Titles == {"t1", "t2", DefaultTitle}

\* a body is its text and the fields of its `meta:` comment, if it has one
NoPRMeta == [present |-> FALSE, publicBody |-> "", publicTitle |-> ""]

PRMetas ==
  {NoPRMeta} \cup
  [present : {TRUE}, publicBody : {"", "MATCH", "b2"},
   publicTitle : {"", "MATCH", "t2"}]

PRBodies == [text : {"", "b1", "b2"}, meta : PRMetas]

\* parsePRMetadata: the keys of the first comment that holds `meta:`
parsePRMetadata(body) == body.meta

\* stripPRMetadata: the body without that comment
stripPRMetadata(body) == [text |-> body.text, meta |-> NoPRMeta]

PlainBody(text) == [text |-> text, meta |-> NoPRMeta]

generateSecondaryPRMeta(primaryMeta, repoRelation) ==
  IF repoRelation = "child" THEN primaryMeta
  ELSE LET metadata == parsePRMetadata(primaryMeta.body)
       IN  [body  |-> IF metadata.publicBody = "MATCH"
                      THEN stripPRMetadata(primaryMeta.body)
                      ELSE IF metadata.publicBody # ""
                      THEN PlainBody(metadata.publicBody)
                      ELSE PlainBody(""),
            title |-> IF metadata.publicTitle = "MATCH"
                      THEN primaryMeta.title
                      ELSE IF metadata.publicTitle # ""
                      THEN metadata.publicTitle
                      ELSE DefaultTitle]

\* syncMeta: the keys of `data`
MetaData(secondaryMeta, expectedMeta) ==
  {k \in {"body", "title"} : secondaryMeta[k] # expectedMeta[k]}

\* syncMeta: the requests it makes
syncMeta_requests(primaryMeta, secondaryMeta, repoRelation) ==
  LET expectedMeta == generateSecondaryPRMeta(primaryMeta, repoRelation)
  IN  IF secondaryMeta.body # expectedMeta.body
         \/ secondaryMeta.title # expectedMeta.title
      THEN <<[method |-> "PATCH", on |-> "secondary",
              data |-> MetaData(secondaryMeta, expectedMeta)]>>
      ELSE <<>>

\* String.prototype.toUpperCase and toLowerCase on the states
toUpperCase(state) ==
  CASE state = "error" -> "ERROR"
    [] state = "failure" -> "FAILURE"
    [] state = "pending" -> "PENDING"
    [] state = "success" -> "SUCCESS"
    [] OTHER -> state

toLowerCase(state) ==
  CASE state = "ERROR" -> "error"
    [] state = "EXPECTED" -> "expected"
    [] state = "FAILURE" -> "failure"
    [] state = "PENDING" -> "pending"
    [] state = "SUCCESS" -> "success"
    [] OTHER -> state

\* getSyncState: the state of the first status of the bot, or undefined
getSyncState(statuses) ==
  LET found == SelectSeq(statuses,
                         LAMBDA status : isSyncStatusContext(status.context))
  IN  IF found = <<>> THEN "" ELSE found[1].state

\* currentState !== groupedState.toUpperCase()
NeedsStatus(currentState, groupedState) ==
  currentState # toUpperCase(groupedState)

\* one function of parallel([...]) in syncStatuses
syncStatuses_side(on, ownStatuses, otherStatuses, context) ==
  IF filterSyncStatus(otherStatuses) # <<>>
     /\ NeedsStatus(getSyncState(ownStatuses),
                    getGroupedState_statuses(otherStatuses))
  THEN <<[method |-> "POST", on |-> on,
          data |-> {<<context, getGroupedState_statuses(otherStatuses)>>}]>>
  ELSE <<>>

\* syncStatuses: the requests it makes
syncStatuses_requests(primaryStatuses, secondaryStatuses) ==
  syncStatuses_side("primary", primaryStatuses, secondaryStatuses,
                    SecondaryContext)
  \o syncStatuses_side("secondary", secondaryStatuses, primaryStatuses,
                       PrimaryContext)

\* the contexts of pr-utils.js and part_014
ChildCI == <<"child", "-monorepo/ci">>

ParentCI == <<"parent", "-monorepo/ci">>

\* /-monorepo\/ci$/.test(status.context)
isMonorepoCI(context) ==
  Len(context) > 0 /\ context[Len(context)] = "-monorepo/ci"

\* syncPRStatus(fromPR, toPR, context): the requests it makes
syncPRStatus_requests(fromStatuses, toStatuses, context) ==
  LET others == SelectSeq(fromStatuses,
                          LAMBDA status : ~isMonorepoCI(status.context))
      statesSet == {others[k].state : k \in DOMAIN others}
      groupedStatus == SelectSeq(toStatuses,
                                 LAMBDA status : isMonorepoCI(status.context))
      previousState == IF groupedStatus = <<>> THEN ""
                       ELSE groupedStatus[1].state
      groupedState == IF "ERROR" \in statesSet THEN "error"
                      ELSE GroupedWithoutError(statesSet)
  IN  IF previousState = "" \/ groupedState # toLowerCase(previousState)
      THEN <<[method |-> "POST", on |-> "to",
              data |-> {<<context, groupedState>>}]>>
      ELSE <<>>

\* syncState: the request it makes
syncState_requests(info) ==
  IF Decision(info).request = "none" THEN <<>>
  ELSE <<[method |-> IF Decision(info).request = "merge" THEN "PUT"
                     ELSE "PATCH",
          on |-> IF Decision(info).target = 1 THEN "primary" ELSE "secondary",
          data |-> {<<"state", Decision(info).result>>}]>>

\* the statuses of the latest commit of a pull request: one status for each
\* context, of another service and of the bot
RECURSIVE StatusesOver(_, _)
StatusesOver(contexts, n) ==
  IF n = 0 THEN {<<>>}
  ELSE StatusesOver(contexts, n - 1) \cup
       {Append(l, CommitStatus(c, st)) :
          l \in {x \in StatusesOver(contexts, n - 1) : Len(x) = n - 1},
          c \in contexts, st \in StatusStates}

PairStatuses(syncContexts) ==
  {l \in StatusesOver({<<"foo">>} \cup syncContexts, MaxStatuses) :
     \A j, k \in DOMAIN l : l[j].context = l[k].context => j = k}

PairInfos ==
  {<<PRInfo(s1, IF s1 = "OPEN" THEN NoTime ELSE c, 1, TRUE),
     PRInfo(s2, IF s2 = "OPEN" THEN NoTime ELSE 1, u, TRUE)>> :
     s1 \in {"OPEN", "CLOSED", "MERGED"}, s2 \in {"OPEN", "CLOSED", "MERGED"},
     c \in 0 .. 2, u \in 0 .. 2}

NoPRMetaProps == [title |-> "", body |-> PlainBody("")]

IdleInput ==
  [info |-> <<PRInfo("OPEN", NoTime, 0, TRUE), PRInfo("OPEN", NoTime, 0, TRUE)>>,
   relation |-> "", primaryMeta |-> NoPRMetaProps,
   secondaryMeta |-> NoPRMetaProps,
   primaryStatuses |-> <<>>, secondaryStatuses |-> <<>>]

Called(fn, input) ==
  [fn |-> fn, input |-> input, pc |-> "called", writes |-> <<>>]

InitIdle ==
  /\ \/ \E info \in PairInfos :
          idle = Called("syncState", [IdleInput EXCEPT !.info = info])
     \/ \E relation \in {"child", "parent"}, title \in {"t1", "t2"},
           body \in PRBodies, secondaryTitle \in Titles,
           secondaryBody \in PRBodies :
          idle = Called("syncMeta",
                   [IdleInput EXCEPT
                      !.relation = relation,
                      !.primaryMeta = [title |-> title, body |-> body],
                      !.secondaryMeta = [title |-> secondaryTitle,
                                         body |-> secondaryBody]])
     \/ \E p \in PairStatuses({SecondaryContext}),
           q \in PairStatuses({PrimaryContext}) :
          idle = Called("syncStatuses",
                   [IdleInput EXCEPT !.primaryStatuses = p,
                                     !.secondaryStatuses = q])
     \/ \E relation \in {"child", "parent"} :
        \E p \in PairStatuses({IF relation = "child" THEN ParentCI
                                ELSE ChildCI}),
           q \in PairStatuses({ChildCI, ParentCI}) :
          idle = Called("syncPRStatus",
                   [IdleInput EXCEPT !.relation = relation,
                                     !.primaryStatuses = p,
                                     !.secondaryStatuses = q])
  /\ CoreUnused
  /\ UnusedBut("idle")

Returns(writes) ==
  /\ idle' = [idle EXCEPT !.pc = "returned", !.writes = writes]
  /\ Alone("idle")

RunSyncState ==
  /\ idle.pc = "called" /\ idle.fn = "syncState"
  /\ Returns(syncState_requests(idle.input.info))

RunSyncMeta ==
  /\ idle.pc = "called" /\ idle.fn = "syncMeta"
  /\ Returns(syncMeta_requests(idle.input.primaryMeta,
                               idle.input.secondaryMeta, idle.input.relation))

RunSyncStatuses ==
  /\ idle.pc = "called" /\ idle.fn = "syncStatuses"
  /\ Returns(syncStatuses_requests(idle.input.primaryStatuses,
                                   idle.input.secondaryStatuses))

\* syncPRStatus(fromPR, toPR, context) with the primary pull request as
\* fromPR: a pull request of the child posts 'child-monorepo/ci'. The
\* commit of toPR can hold both contexts, when its repository has a parent
\* and children.
RunSyncPRStatus ==
  /\ idle.pc = "called" /\ idle.fn = "syncPRStatus"
  /\ Returns(syncPRStatus_requests(idle.input.primaryStatuses,
               idle.input.secondaryStatuses,
               IF idle.input.relation = "child" THEN ChildCI ELSE ParentCI))

NextIdle ==
  \/ RunSyncState
  \/ RunSyncMeta
  \/ RunSyncStatuses
  \/ RunSyncPRStatus

SpecIdle == InitIdle /\ [][NextIdle]_vars

\* the state of the status under exactly this context, "" if there is none
StateUnder(statuses, context) ==
  LET found == SelectSeq(statuses, LAMBDA status : status.context = context)
  IN  IF found = <<>> THEN "" ELSE found[1].state

\* the states a status shows for the grouped state of the partner
ShownAs(states) ==
  IF "ERROR" \in states THEN "ERROR"
  ELSE IF "FAILURE" \in states THEN "FAILURE"
  ELSE IF "EXPECTED" \in states \/ "PENDING" \in states THEN "PENDING"
  ELSE "SUCCESS"

OtherStatesOf(statuses, contexts) ==
  {statuses[k].state :
     k \in {j \in DOMAIN statuses : statuses[j].context \notin contexts}}

\* the status `context` on `own` shows the grouped state of the statuses of
\* other services on `other`
StatusShown(own, other, context, contexts) ==
  StateUnder(own, context) = ShownAs(OtherStatesOf(other, contexts))

\* the pair is consistent in what the called function keeps in sync
Consistent ==
  CASE idle.fn = "syncState" ->
         idle.input.info[1].state = idle.input.info[2].state
    [] idle.fn = "syncMeta" ->
         idle.input.secondaryMeta =
           generateSecondaryPRMeta(idle.input.primaryMeta, idle.input.relation)
    [] idle.fn = "syncStatuses" ->
         /\ StatusShown(idle.input.primaryStatuses,
                        idle.input.secondaryStatuses, SecondaryContext,
                        {PrimaryContext, SecondaryContext})
         /\ StatusShown(idle.input.secondaryStatuses,
                        idle.input.primaryStatuses, PrimaryContext,
                        {PrimaryContext, SecondaryContext})
    [] OTHER ->
         StatusShown(idle.input.secondaryStatuses, idle.input.primaryStatuses,
                     IF idle.input.relation = "child" THEN ChildCI ELSE ParentCI,
                     {ChildCI, ParentCI})

\* C35: syncState, syncMeta or syncStatuses on a pair whose open / closed
\* state, expected title and body, and grouped statuses are consistent
\* already makes no write request.
C35_ConsistentPairNoWrite ==
  (idle.pc = "returned" /\ Consistent) => idle.writes = <<>>

---------------------------------------------------------------------------
(* copyCommits: the parents of the commits it creates and its ref update   *)

\* how many source commits one call copies at most
MaxChain == 3

\* target.commitSha
TargetCommitSha == <<"t", 0>>

\* a source commit after augmentPRCommits: whether it is copied, and its
\* second parent: none, one that is not synced, one whose partner commit is
\* found, one whose partner commit is not found
ChainCommits ==
  [shouldSync : BOOLEAN, merged : {"none", "unsynced", "found", "missing"}]

RECURSIVE ChainLists(_)
ChainLists(n) ==
  IF n = 0 THEN {<<>>}
  ELSE ChainLists(n - 1) \cup
       {Append(l, c) : l \in {x \in ChainLists(n - 1) : Len(x) = n - 1},
                       c \in ChainCommits}

\* the sha the host gives to the k-th commit the call creates
CreatedSha(k) == <<"n", k>>

\* the sha getPartnerCommitSha finds for the second parent
PartnerParentSha(index) == <<"p", index>>

InitChain ==
  /\ \E sourceCommits \in ChainLists(MaxChain) :
       chain = [sourceCommits |-> sourceCommits, index |-> 1,
                parentCommitSha |-> TargetCommitSha, created |-> <<>>,
                ref |-> <<>>, pc |-> "loop"]
  /\ CoreUnused
  /\ UnusedBut("chain")

\* const parentCommitShas = [parentCommitSha], and the push of the partner
\* of the second parent
parentCommitShas(parentCommitSha, prCommit, index) ==
  IF prCommit.merged = "found"
  THEN <<parentCommitSha, PartnerParentSha(index)>>
  ELSE <<parentCommitSha>>

\* mutant: the next commit is put on the commit of the target again
commitTree_then_Keeps(parentCommitSha, sha) == parentCommitSha

\* .then(({sha, tree}) => { parentCommitSha = sha; ... })
commitTree_then(parentCommitSha, sha) == sha

\* if (!prCommit.shouldSync) continue
ChainSkips ==
  /\ chain.pc = "loop" /\ chain.index <= Len(chain.sourceCommits)
  /\ ~chain.sourceCommits[chain.index].shouldSync
  /\ chain' = [chain EXCEPT !.index = @ + 1]
  /\ Alone("chain")

\* the body of the loop throws: no partner commit for the second parent
ChainThrows ==
  /\ chain.pc = "loop" /\ chain.index <= Len(chain.sourceCommits)
  /\ chain.sourceCommits[chain.index].shouldSync
  /\ chain.sourceCommits[chain.index].merged = "missing"
  /\ chain' = [chain EXCEPT !.pc = "thrown"]
  /\ Alone("chain")

\* the body of the loop up to the commit it creates with commitTree
ChainCommits_one ==
  /\ chain.pc = "loop" /\ chain.index <= Len(chain.sourceCommits)
  /\ chain.sourceCommits[chain.index].shouldSync
  /\ chain.sourceCommits[chain.index].merged # "missing"
  /\ LET sha == CreatedSha(Len(chain.created) + 1)
     IN  chain' = [chain EXCEPT
           !.created = Append(@,
              [sha |-> sha, from |-> chain.index,
               parents |-> parentCommitShas(chain.parentCommitSha,
                              chain.sourceCommits[chain.index], chain.index)]),
           !.parentCommitSha = commitTree_then(@, sha),
           !.index = @ + 1]
  /\ Alone("chain")

\* a request of commitTree rejects
ChainRequestFails ==
  /\ chain.pc = "loop" /\ chain.index <= Len(chain.sourceCommits)
  /\ chain.sourceCommits[chain.index].shouldSync
  /\ chain.sourceCommits[chain.index].merged # "missing"
  /\ chain' = [chain EXCEPT !.pc = "thrown"]
  /\ Alone("chain")

\* return request('PATCH /repos/:repoName/git/refs/heads/:branchName', ...)
ChainUpdatesRef ==
  /\ chain.pc = "loop" /\ chain.index > Len(chain.sourceCommits)
  /\ chain' = [chain EXCEPT !.pc = "updated",
                            !.ref = <<chain.parentCommitSha>>]
  /\ Alone("chain")

NextChain ==
  \/ ChainSkips
  \/ ChainThrows
  \/ ChainCommits_one
  \/ ChainRequestFails
  \/ ChainUpdatesRef

SpecChain == InitChain /\ [][NextChain]_vars

\* C38: the commits one copyCommits call creates form a linear chain in
\* source order: the first has target.commitSha as first parent, each later
\* one has the commit created before it as first parent, and the final ref
\* update points at the last one.
C38_CreatedCommitsFormChain ==
  LET created == chain.created
  IN  /\ created # <<>> => created[1].parents[1] = <<"t", 0>>
      /\ \A k \in 2 .. Len(created) :
           /\ created[k].parents[1] = created[k - 1].sha
           /\ created[k].from > created[k - 1].from
      /\ (chain.pc = "updated" /\ created # <<>>)
           => chain.ref = <<created[Len(created)].sha>>

\* a call that skipped a source commit, created two commits, one of them
\* with a second parent, and updated the ref
C38_Witness ==
  /\ chain.pc = "updated"
  /\ Len(chain.created) >= 2
  /\ \E k \in DOMAIN chain.created : Len(chain.created[k].parents) = 2
  /\ \E i \in DOMAIN chain.sourceCommits : ~chain.sourceCommits[i].shouldSync

=============================================================================
